---- MODULE Spec2Model ----
(***************************************************************************)
(* A model of the utility library's deep structural operations             *)
(* (objectUtils.ts: deepClone, deepEqual, deepMerge, get, set, has,        *)
(* unset), of its weighted sampling and weighted aggregates (arrayUtils.ts:*)
(* weightedSample, weightedSampleSize, weightedSampleSizeWithoutReplacement,*)
(* weightedAverage, weightedSum, weightedFrequency, weightedMax,           *)
(* weightedMin), of levenshteinDistance and isValidCreditCard (string      *)
(* utilities) and of the wrappers once and memoize (functional utilities). *)
(*                                                                         *)
(* JavaScript values are modelled over an explicit heap, so that reference *)
(* identity (===  on objects) and structural content are kept apart.      *)
(***************************************************************************)
EXTENDS Integers, Sequences, FiniteSets, TLC

VARIABLES
    heap,    \* the object heap: a sequence of objects, an address is an index
    op,      \* which library function the call under study is
    args,    \* the arguments of the call (a record, per function)
    pc,      \* "call" before the function has run, "loop" inside a sampling
             \* loop, "done" once it has returned or thrown, "mutated" once
             \* the caller has changed an object after a deepClone
    ret,     \* the outcome: [kind |-> "return", v |-> value] or
             \* [kind |-> "throw", msg |-> message]
    work     \* the locals of a sampling loop (availableItems, availableWeights,
             \* result, i); the variables captured by the closure that once or
             \* memoize returns (called, result; cache) and the record of the
             \* calls made so far; <<>> for the other functions

vars == <<heap, op, args, pc, ret, work>>

(***************************************************************************)
(* Values.  A primitive is a record tagged with its kind; an object value  *)
(* is a reference into the heap.  Strings are sequences of characters.     *)
(***************************************************************************)
Undef == [k |-> "undef"]
Null == [k |-> "null"]
Bool(b) == [k |-> "bool", b |-> b]
Num(n) == [k |-> "num", n |-> n]
NaN == [k |-> "nan"]
Str(s) == [k |-> "str", s |-> s]
Ref(a) == [k |-> "ref", a |-> a]

IsPrimitive(v) == v.k \in {"undef", "null", "bool", "num", "nan", "str"}

\* typeof v
TypeOf(v) ==
    CASE v.k = "undef" -> "undefined"
      [] v.k = "null" -> "object"
      [] v.k = "bool" -> "boolean"
      [] v.k \in {"num", "nan"} -> "number"
      [] v.k = "str" -> "string"
      [] v.k = "ref" -> "object"

\* a === b: same primitive (NaN is not equal to itself) or same reference
StrictEq(a, b) == a = b /\ a.k # "nan"

\* the truthiness of v, as || tests it
Truthy(v) ==
    CASE v.k \in {"undef", "null", "nan"} -> FALSE
      [] v.k = "bool" -> v.b
      [] v.k = "num" -> v.n # 0
      [] v.k = "str" -> v.s # <<>>
      [] v.k = "ref" -> TRUE

(***************************************************************************)
(* Heap objects:                                                           *)
(*   [k |-> "obj",  props |-> [key -> value]]     a plain record           *)
(*   [k |-> "arr",  items |-> <<value, ...>>]     an Array                 *)
(*   [k |-> "date", time  |-> Num(n) or NaN]      a Date                   *)
(*   [k |-> "set",  items |-> <<value, ...>>]     a Set, insertion order   *)
(*   [k |-> "map",  entries |-> <<<<key, value>>, ...>>]   a Map           *)
(* A key is a string, that is a sequence of characters.                    *)
(***************************************************************************)
EmptyObj == [k |-> "obj", props |-> <<>>]

\* allocation of a new object: the heap after it and the reference to it
New(h, o) == [h |-> Append(h, o), v |-> Ref(Len(h) + 1)]

Digits == <<"0", "1", "2", "3", "4", "5", "6", "7", "8", "9">>

\* the property name of array index i (String(i)), for i < 10
IndexKey(i) == <<Digits[i + 1]>>

\* the own enumerable string keys of a heap object: Object.keys(o), and what
\* for..in with hasOwnProperty visits
ObjectKeys(o) ==
    CASE o.k = "obj" -> DOMAIN o.props
      [] o.k = "arr" -> {IndexKey(i - 1) : i \in 1..Len(o.items)}
      [] OTHER -> {}

\* the own enumerable keys of any value that for..in can be run on: a string
\* primitive has its indices, the other primitives have none
OwnKeys(h, v) ==
    CASE v.k = "ref" -> ObjectKeys(h[v.a])
      [] v.k = "str" -> {IndexKey(i - 1) : i \in 1..Len(v.s)}
      [] OTHER -> {}

\* v[key] for a value v that is not null or undefined; undefined when v has no
\* such own property (prototype properties are left out of the model)
GetProp(h, v, key) ==
    IF key \notin OwnKeys(h, v) THEN Undef
    ELSE IF v.k = "str" THEN Str(<<v.s[(CHOOSE i \in 1..Len(v.s) : IndexKey(i - 1) = key)]>>)
    ELSE LET o == h[v.a] IN
         IF o.k = "obj" THEN o.props[key]
         ELSE o.items[(CHOOSE i \in 1..Len(o.items) : IndexKey(i - 1) = key)]

\* a fixed enumeration of a finite set of keys (iteration order is not
\* observable through the operations modelled here)
RECURSIVE KeySeq(_)
KeySeq(S) ==
    IF S = {} THEN <<>>
    ELSE LET x == CHOOSE y \in S : TRUE IN <<x>> \o KeySeq(S \ {x})

(***************************************************************************)
(* deepClone (objectUtils.ts:8-26).  It allocates, so it maps a heap and a *)
(* value to the heap after the call and the value returned.                *)
(***************************************************************************)
RECURSIVE deepClone(_, _), CloneItems(_, _), CloneEntries(_, _), CloneProps(_, _, _, _)

\* a copy of the items that clones none of them
CloneItemsShared(h, items) == [h |-> h, vs |-> items]

\* obj.map(item => deepClone(item)): the items cloned left to right
CloneItems(h, items) ==
    IF items = <<>> THEN [h |-> h, vs |-> <<>>]
    ELSE LET c == deepClone(h, Head(items))
             r == CloneItems(c.h, Tail(items))
         IN [h |-> r.h, vs |-> <<c.v>> \o r.vs]

\* obj.forEach((value, key) => cloned.set(deepClone(key), deepClone(value)))
CloneEntries(h, entries) ==
    IF entries = <<>> THEN [h |-> h, vs |-> <<>>]
    ELSE LET ck == deepClone(h, Head(entries)[1])
             cv == deepClone(ck.h, Head(entries)[2])
             r == CloneEntries(cv.h, Tail(entries))
         IN [h |-> r.h, vs |-> <<(<<ck.v, cv.v>>)>> \o r.vs]

\* Object.keys(obj).forEach(key => cloned[key] = deepClone(obj[key])), with
\* cloned at address c
CloneProps(h, c, src, keys) ==
    IF keys = <<>> THEN h
    ELSE LET key == Head(keys)
             cl == deepClone(h, GetProp(h, src, key))
             h2 == [cl.h EXCEPT ![c] =
                       [k |-> "obj", props |-> [x \in DOMAIN @.props \cup {key} |->
                                                   IF x = key THEN cl.v ELSE @.props[x]]]]
         IN CloneProps(h2, c, src, Tail(keys))

deepClone(h, obj) ==
    IF obj.k = "null" \/ TypeOf(obj) # "object" THEN [h |-> h, v |-> obj]
    ELSE LET o == h[obj.a] IN
         CASE o.k = "date" -> New(h, [k |-> "date", time |-> o.time])
           [] o.k = "arr" -> LET r == CloneItems(h, o.items)
                             IN New(r.h, [k |-> "arr", items |-> r.vs])
           [] o.k = "set" -> LET r == CloneItems(h, o.items)
                             IN New(r.h, [k |-> "set", items |-> r.vs])
           [] o.k = "map" -> LET n == New(h, [k |-> "map", entries |-> <<>>])
                                 r == CloneEntries(n.h, o.entries)
                             IN [h |-> [r.h EXCEPT ![n.v.a] = [k |-> "map", entries |-> r.vs]],
                                 v |-> n.v]
           [] o.k = "obj" -> LET n == New(h, EmptyObj)
                             IN [h |-> CloneProps(n.h, n.v.a, obj, KeySeq(ObjectKeys(o))),
                                 v |-> n.v]

(***************************************************************************)
(* deepEqual (objectUtils.ts:31-55).  It reads the heap and returns a      *)
(* boolean; no step of it can throw on the values modelled.                *)
(***************************************************************************)
RECURSIVE deepEqual(_, _, _)

\* the same test with keysB.includes(key) left out: a key of a missing in b
\* reads as undefined there
EveryKeyNoIncludes(h, a, b, keysA, keysB) ==
    \A key \in keysA : deepEqual(h, GetProp(h, a, key), GetProp(h, b, key))

\* keysA.every(key => keysB.includes(key) && deepEqual(a[key], b[key]))
EveryKey(h, a, b, keysA, keysB) ==
    \A key \in keysA : key \in keysB /\ deepEqual(h, GetProp(h, a, key), GetProp(h, b, key))

deepEqual(h, a, b) ==
    IF StrictEq(a, b) THEN TRUE
    ELSE IF a.k = "null" \/ b.k = "null" THEN FALSE
    ELSE IF TypeOf(a) # TypeOf(b) THEN FALSE
    ELSE IF TypeOf(a) # "object" THEN FALSE
    ELSE LET oa == h[a.a]
             ob == h[b.a]
         IN IF oa.k = "date" /\ ob.k = "date" THEN StrictEq(oa.time, ob.time)
            ELSE IF oa.k = "arr" /\ ob.k = "arr"
                 THEN IF Len(oa.items) # Len(ob.items) THEN FALSE
                      ELSE \A i \in 1..Len(oa.items) : deepEqual(h, oa.items[i], ob.items[i])
            ELSE IF oa.k = "arr" \/ ob.k = "arr" THEN FALSE
            ELSE LET keysA == ObjectKeys(oa)
                     keysB == ObjectKeys(ob)
                 IN IF Cardinality(keysA) # Cardinality(keysB) THEN FALSE
                    ELSE EveryKey(h, a, b, keysA, keysB)

(***************************************************************************)
(* The inputs.  A literal is a tree: a primitive, or a container whose     *)
(* children are literals.  Alloc evaluates a literal as the object literal *)
(* it stands for, allocating every container it holds.                     *)
(***************************************************************************)
MaxLen == 1      \* most items of an Array literal
MaxDepth == 2    \* deepest nesting of containers in the literal of a one-argument call
PairDepth == 1   \* the same, for each literal of a two-argument call
MaxTime == 1     \* largest epoch offset of a Date literal

Leaves == {Undef, Null, Num(1), NaN, Str(<<"a">>)}
Keys == {<<"a">>, <<"b">>}
Times == {Num(t) : t \in 0..MaxTime} \cup {NaN}

SeqsUpTo(S, n) == UNION {[1..m -> S] : m \in 0..n}

\* Map entries: a key paired with a value, one of the two a leaf
MapPairs(S) == {<<x, Num(1)>> : x \in S} \cup {<<Str(<<"a">>), y>> : y \in S}

\* the containers of one child taken from S: a record, an Array, a Set, a Map
Wrap(S) ==
    {[k |-> "obj", props |-> f] : f \in UNION {[{key} -> S] : key \in Keys}}
    \cup {[k |-> "arr", items |-> <<x>>] : x \in S}
    \cup {[k |-> "set", items |-> <<x>>] : x \in S}
    \cup {[k |-> "map", entries |-> <<e>>] : e \in MapPairs(S)}

\* the containers of leaves: the empty ones, those of one child, the records of
\* two keys, the Arrays of up to MaxLen items and the Dates
Shallow ==
    Wrap(Leaves)
    \cup {[k |-> "obj", props |-> f] : f \in [Keys -> Leaves] \cup {<<>>}}
    \cup {[k |-> "arr", items |-> s] : s \in SeqsUpTo(Leaves, MaxLen)}
    \cup {[k |-> "date", time |-> t] : t \in Times}
    \cup {[k |-> "set", items |-> <<>>], [k |-> "map", entries |-> <<>>]}

\* the literals nested at most d deep
RECURSIVE Lits(_)
Lits(d) ==
    IF d = 0 THEN Leaves
    ELSE IF d = 1 THEN Leaves \cup Shallow
    ELSE LET S == Lits(d - 1) IN S \cup Wrap(S)

Literals == Lits(MaxDepth)
PairLiterals == Lits(PairDepth)

RECURSIVE Alloc(_, _), AllocItems(_, _), AllocEntries(_, _), AllocProps(_, _, _)

AllocItems(h, items) ==
    IF items = <<>> THEN [h |-> h, vs |-> <<>>]
    ELSE LET c == Alloc(h, Head(items))
             r == AllocItems(c.h, Tail(items))
         IN [h |-> r.h, vs |-> <<c.v>> \o r.vs]

AllocEntries(h, entries) ==
    IF entries = <<>> THEN [h |-> h, vs |-> <<>>]
    ELSE LET ck == Alloc(h, Head(entries)[1])
             cv == Alloc(ck.h, Head(entries)[2])
             r == AllocEntries(cv.h, Tail(entries))
         IN [h |-> r.h, vs |-> <<(<<ck.v, cv.v>>)>> \o r.vs]

AllocProps(h, props, keys) ==
    IF keys = <<>> THEN [h |-> h, f |-> <<>>]
    ELSE LET c == Alloc(h, props[Head(keys)])
             r == AllocProps(c.h, props, Tail(keys))
         IN [h |-> r.h,
             f |-> [x \in DOMAIN r.f \cup {Head(keys)} |->
                      IF x = Head(keys) THEN c.v ELSE r.f[x]]]

Alloc(h, lit) ==
    IF IsPrimitive(lit) THEN [h |-> h, v |-> lit]
    ELSE CASE lit.k = "obj" -> LET r == AllocProps(h, lit.props, KeySeq(DOMAIN lit.props))
                               IN New(r.h, [k |-> "obj", props |-> r.f])
           [] lit.k = "arr" -> LET r == AllocItems(h, lit.items)
                               IN New(r.h, [k |-> "arr", items |-> r.vs])
           [] lit.k = "date" -> New(h, lit)
           [] lit.k = "set" -> LET r == AllocItems(h, lit.items)
                               IN New(r.h, [k |-> "set", items |-> r.vs])
           [] lit.k = "map" -> LET r == AllocEntries(h, lit.entries)
                               IN New(r.h, [k |-> "map", entries |-> r.vs])

Return(v) == [kind |-> "return", v |-> v]
Throw(msg) == [kind |-> "throw", msg |-> msg]
NoRet == [kind |-> "none"]

(***************************************************************************)
(* Specification of deepClone: one call on an arbitrary literal, and then  *)
(* one change made in place to the clone or to the argument.               *)
(***************************************************************************)
InitClone ==
    /\ op = "deepClone"
    /\ \E lit \in Literals :
          LET r == Alloc(<<>>, lit)
          IN heap = r.h /\ args = [obj |-> r.v]
    /\ pc = "call"
    /\ ret = NoRet
    /\ work = <<>>

CallDeepClone ==
    /\ pc = "call" /\ op = "deepClone"
    /\ LET r == deepClone(heap, args.obj)
       IN heap' = r.h /\ ret' = Return(r.v)
    /\ pc' = "done"
    /\ UNCHANGED <<op, args, work>>

\* the values an object holds directly: property values, items, Map keys and
\* Map values
Children(o) ==
    CASE o.k = "obj" -> {o.props[key] : key \in DOMAIN o.props}
      [] o.k \in {"arr", "set"} -> {o.items[i] : i \in 1..Len(o.items)}
      [] o.k = "map" -> UNION {{o.entries[i][1], o.entries[i][2]} : i \in 1..Len(o.entries)}
      [] o.k = "date" -> {}

\* the addresses of the objects reachable from a value
RECURSIVE Reach(_, _)
Reach(h, v) ==
    IF v.k # "ref" THEN {}
    ELSE {v.a} \cup UNION {Reach(h, c) : c \in Children(h[v.a])}

\* an object after the caller has changed it in place: o.z = 0 on a record,
\* push(0) on an Array, setTime(-1) on a Date, add('z') on a Set,
\* set('z', 0) on a Map
Mutated(o) ==
    CASE o.k = "obj" -> [k |-> "obj", props |-> [x \in DOMAIN o.props \cup {<<"z">>} |->
                                                   IF x = <<"z">> THEN Num(0) ELSE o.props[x]]]
      [] o.k = "arr" -> [k |-> "arr", items |-> Append(o.items, Num(0))]
      [] o.k = "date" -> [k |-> "date", time |-> Num(-1)]
      [] o.k = "set" -> [k |-> "set", items |-> Append(o.items, Str(<<"z">>))]
      [] o.k = "map" -> [k |-> "map", entries |-> Append(o.entries, <<Str(<<"z">>), Num(0)>>)]

\* after the call, the caller changes in place an object reachable from the clone
MutateClone ==
    /\ pc = "done" /\ op = "deepClone"
    /\ \E a \in Reach(heap, ret.v) :
          /\ heap' = [heap EXCEPT ![a] = Mutated(@)]
          /\ work' = [side |-> "clone", a |-> a]
    /\ pc' = "mutated"
    /\ UNCHANGED <<op, args, ret>>

\* after the call, the caller changes in place an object reachable from the
\* argument
MutateOriginal ==
    /\ pc = "done" /\ op = "deepClone"
    /\ \E a \in Reach(heap, args.obj) :
          /\ heap' = [heap EXCEPT ![a] = Mutated(@)]
          /\ work' = [side |-> "original", a |-> a]
    /\ pc' = "mutated"
    /\ UNCHANGED <<op, args, ret>>

NextClone == CallDeepClone \/ MutateClone \/ MutateOriginal

SpecClone == InitClone /\ [][NextClone]_vars

\* C1: every deepClone result is deepEqual to its argument, and is another
\* reference when the argument is not a primitive.
C1_CloneEqualAndFresh ==
    (op = "deepClone" /\ pc = "done") =>
        /\ deepEqual(heap, ret.v, args.obj)
        /\ (~IsPrimitive(args.obj) => ret.v # args.obj)

(***************************************************************************)
(* Specification of deepEqual: one call on two arbitrary literals, or on   *)
(* one object passed twice.                                                *)
(***************************************************************************)
InitEqual ==
    /\ op = "deepEqual"
    /\ \E la \in PairLiterals, lb \in PairLiterals, alias \in BOOLEAN :
          LET ra == Alloc(<<>>, la)
              rb == Alloc(ra.h, lb)
          IN IF alias
             THEN la = lb /\ heap = ra.h /\ args = [a |-> ra.v, b |-> ra.v]
             ELSE heap = rb.h /\ args = [a |-> ra.v, b |-> rb.v]
    /\ pc = "call"
    /\ ret = NoRet
    /\ work = <<>>

CallDeepEqual ==
    /\ pc = "call" /\ op = "deepEqual"
    /\ ret' = Return(Bool(deepEqual(heap, args.a, args.b)))
    /\ pc' = "done"
    /\ UNCHANGED <<heap, op, args, work>>

NextEqual == CallDeepEqual

SpecEqual == InitEqual /\ [][NextEqual]_vars

\* the kind of a value: the type of a primitive, null, or the class of an object
KindOf(h, v) == IF v.k = "ref" THEN h[v.a].k ELSE IF v.k = "null" THEN "null" ELSE TypeOf(v)

\* C6: deepEqual(a, b) = deepEqual(b, a).
C6_Symmetric ==
    (op = "deepEqual" /\ pc = "done") =>
        ret = Return(Bool(deepEqual(heap, args.b, args.a)))

\* two different records with a key each were compared and found equal
C6_Witness ==
    /\ op = "deepEqual" /\ pc = "done"
    /\ args.a.k = "ref" /\ args.b.k = "ref" /\ args.a # args.b
    /\ heap[args.a.a].k = "obj" /\ heap[args.b.a].k = "obj"
    /\ DOMAIN heap[args.a.a].props # {}
    /\ ret = Return(Bool(TRUE))

\* C7: deepEqual of two values of different kinds is false.
C7_KindMismatchFalse ==
    (op = "deepEqual" /\ pc = "done" /\ KindOf(heap, args.a) # KindOf(heap, args.b)) =>
        ret = Return(Bool(FALSE))

(***************************************************************************)
(* Path-addressed access (objectUtils.ts:85-156).                          *)
(***************************************************************************)

\* path.split('.'): the segments between the dots; the empty path has the one
\* segment ""
RECURSIVE Split(_)
Split(path) ==
    IF \A i \in 1..Len(path) : path[i] # "."
    THEN <<path>>
    ELSE LET d == CHOOSE i \in 1..Len(path) :
                      path[i] = "." /\ \A j \in 1..(i - 1) : path[j] # "."
         IN <<SubSeq(path, 1, d - 1)>> \o Split(SubSeq(path, d + 1, Len(path)))

\* key in current, for an object current (own properties only: the properties
\* inherited from the prototypes are not spelt by the paths modelled)
In(h, current, key) == key \in OwnKeys(h, current)

\* key in current throws a TypeError unless current is an object
InThrows(current) == current.k # "ref"

\* the heap after o[key] = v, for the record at address a
PutProp(h, a, key, v) ==
    [h EXCEPT ![a] = [k |-> "obj",
                      props |-> [x \in DOMAIN @.props \cup {key} |->
                                    IF x = key THEN v ELSE @.props[x]]]]

\* the loop of get over the segments left, from the value current
RECURSIVE GetWalk(_, _, _, _)
GetWalk(h, current, keys, defaultValue) ==
    IF keys = <<>> THEN Return(current)
    ELSE IF current.k \in {"null", "undef"} THEN Return(defaultValue)
    ELSE IF InThrows(current) THEN Throw("TypeError")
    ELSE IF ~In(h, current, Head(keys)) THEN Return(defaultValue)
    ELSE GetWalk(h, GetProp(h, current, Head(keys)), Tail(keys), defaultValue)

get(h, obj, path, defaultValue) == GetWalk(h, obj, Split(path), defaultValue)

\* the loop of set over the segments left and its last assignment: the heap
\* after it and the outcome
RECURSIVE SetWalk(_, _, _, _)
SetWalk(h, current, keys, value) ==
    IF InThrows(current) THEN [h |-> h, ret |-> Throw("TypeError")]
    ELSE IF Len(keys) = 1
    THEN [h |-> PutProp(h, current.a, keys[1], value), ret |-> Return(Undef)]
    ELSE LET key == Head(keys)
             n == New(h, EmptyObj)
             h1 == IF ~In(h, current, key) \/ TypeOf(GetProp(h, current, key)) # "object"
                   THEN PutProp(n.h, current.a, key, n.v)
                   ELSE h
         IN SetWalk(h1, GetProp(h1, current, key), Tail(keys), value)

set(h, obj, path, value) == SetWalk(h, obj, Split(path), value)

\* the loop of has over the segments left (objectUtils.ts:124-129)
RECURSIVE HasWalk(_, _, _)
HasWalk(h, current, keys) ==
    IF keys = <<>> THEN Return(Bool(TRUE))
    ELSE IF current.k \in {"null", "undef"} THEN Return(Bool(FALSE))
    ELSE IF InThrows(current) THEN Throw("TypeError")
    ELSE IF ~In(h, current, Head(keys)) THEN Return(Bool(FALSE))
    ELSE HasWalk(h, GetProp(h, current, Head(keys)), Tail(keys))

\* has with the path taken as one key
hasNoSplit(h, obj, path) == HasWalk(h, obj, <<path>>)

has(h, obj, path) == HasWalk(h, obj, Split(path))

\* the heap after delete o[key], for the record at address a
DelProp(h, a, key) ==
    [h EXCEPT ![a] = [k |-> "obj", props |-> [x \in DOMAIN @.props \ {key} |-> @.props[x]]]]

\* the loop of unset over the segments before the last (objectUtils.ts:141-147)
\* and the test and removal of the last one (149-155): the heap after it and
\* the outcome.  lastKey in current is evaluated on whatever current is.
RECURSIVE UnsetWalk(_, _, _)
UnsetWalk(h, current, keys) ==
    IF Len(keys) = 1
    THEN IF InThrows(current) THEN [h |-> h, ret |-> Throw("TypeError")]
         ELSE IF In(h, current, keys[1])
         THEN [h |-> DelProp(h, current.a, keys[1]), ret |-> Return(Bool(TRUE))]
         ELSE [h |-> h, ret |-> Return(Bool(FALSE))]
    ELSE IF current.k \in {"null", "undef"} THEN [h |-> h, ret |-> Return(Bool(FALSE))]
    ELSE IF InThrows(current) THEN [h |-> h, ret |-> Throw("TypeError")]
    ELSE IF ~In(h, current, Head(keys)) THEN [h |-> h, ret |-> Return(Bool(FALSE))]
    ELSE UnsetWalk(h, GetProp(h, current, Head(keys)), Tail(keys))

unset(h, obj, path) == UnsetWalk(h, obj, Split(path))

MaxPathLen == 3    \* most characters of a path

PathChars == {"a", "b", "."}
Paths == SeqsUpTo(PathChars, MaxPathLen)

\* the literals made of records and primitives only
RECURSIVE RecordsOnly(_)
RecordsOnly(lit) ==
    \/ IsPrimitive(lit)
    \/ lit.k = "obj" /\ \A key \in DOMAIN lit.props : RecordsOnly(lit.props[key])

PathObjects == {lit \in Literals : lit.k = "obj" /\ RecordsOnly(lit)}
PathValues == {Undef, Null, Str(<<"d">>)}

\* a call of get, set, has or unset; has and unset take no third argument
InitPath ==
    /\ op \in {"get", "set", "has", "unset"}
    /\ \E lit \in PathObjects, path \in Paths, x \in PathValues :
          LET r == Alloc(<<>>, lit)
          IN /\ op \in {"has", "unset"} => x = Undef
             /\ heap = r.h
             /\ args = [obj |-> r.v, path |-> path, x |-> x]
    /\ pc = "call"
    /\ ret = NoRet
    /\ work = <<>>

\* get(obj, path, x): x is the default value (undefined when omitted)
CallGet ==
    /\ pc = "call" /\ op = "get"
    /\ ret' = get(heap, args.obj, args.path, args.x)
    /\ pc' = "done"
    /\ UNCHANGED <<heap, op, args, work>>

\* set(obj, path, x): x is the value to store
CallSet ==
    /\ pc = "call" /\ op = "set"
    /\ LET r == set(heap, args.obj, args.path, args.x)
       IN heap' = r.h /\ ret' = r.ret
    /\ pc' = "done"
    /\ UNCHANGED <<op, args, work>>

\* has(obj, path)
CallHas ==
    /\ pc = "call" /\ op = "has"
    /\ ret' = has(heap, args.obj, args.path)
    /\ pc' = "done"
    /\ UNCHANGED <<heap, op, args, work>>

\* unset(obj, path)
CallUnset ==
    /\ pc = "call" /\ op = "unset"
    /\ LET r == unset(heap, args.obj, args.path)
       IN heap' = r.h /\ ret' = r.ret
    /\ pc' = "done"
    /\ UNCHANGED <<op, args, work>>

NextPath == CallGet \/ CallSet \/ CallHas \/ CallUnset

SpecPath == InitPath /\ [][NextPath]_vars

\* what the claim says get returns: the default as soon as the value reached
\* is not an object holding the next segment, the value reached otherwise
RECURSIVE ClaimedGet(_, _, _, _)
ClaimedGet(h, current, keys, defaultValue) ==
    IF keys = <<>> THEN current
    ELSE IF current.k # "ref" \/ Head(keys) \notin OwnKeys(h, current) THEN defaultValue
    ELSE ClaimedGet(h, GetProp(h, current, Head(keys)), Tail(keys), defaultValue)

\* C4: get returns the default, without throwing, as soon as a segment is
\* missing or the value reached is null, undefined or a primitive, and the
\* value stored at the path otherwise.
C4_GetDefaultOrStored ==
    (op = "get" /\ pc = "done") =>
        ret = Return(ClaimedGet(heap, args.obj, Split(args.path), args.x))

\* C5: set on a non-empty path returns without throwing, and get on the same
\* path then returns the value stored.
C5_SetThenGet ==
    (op = "set" /\ pc = "done" /\ args.path # <<>>) =>
        /\ ret.kind = "return"
        /\ get(heap, args.obj, args.path, Undef) = Return(args.x)

(***************************************************************************)
(* deepMerge (objectUtils.ts:60-80).                                       *)
(***************************************************************************)
RECURSIVE deepMerge(_, _), MergeObjects(_, _, _), MergeKeys(_, _, _, _)

\* the same loop with a record assigned as it is where result has nothing
\* to merge it with
MergeKeysAssignsFirst(h, result, obj, keys) ==
    IF keys = <<>> THEN h
    ELSE LET key == Head(keys)
             value == GetProp(h, obj, key)
             acc == GetProp(h, Ref(result), key)
             h1 == IF value.k = "ref" /\ h[value.a].k # "arr" /\ Truthy(acc)
                   THEN LET m == deepMerge(h, <<acc, value>>)
                        IN PutProp(m.h, result, key, m.v)
                   ELSE PutProp(h, result, key, value)
         IN MergeKeys(h1, result, obj, Tail(keys))

\* the body of for (const key in obj) for the keys left, result being the
\* record at address result
MergeKeys(h, result, obj, keys) ==
    IF keys = <<>> THEN h
    ELSE LET key == Head(keys)
             value == GetProp(h, obj, key)
             h1 == IF value.k = "ref" /\ h[value.a].k # "arr"
                   THEN LET acc == GetProp(h, Ref(result), key)
                            first == IF Truthy(acc) THEN [h |-> h, v |-> acc]
                                     ELSE New(h, EmptyObj)
                            m == deepMerge(first.h, <<first.v, value>>)
                        IN PutProp(m.h, result, key, m.v)
                   ELSE PutProp(h, result, key, value)
         IN MergeKeys(h1, result, obj, Tail(keys))

\* for (const obj of objects), for the objects left
MergeObjects(h, result, objects) ==
    IF objects = <<>> THEN h
    ELSE MergeObjects(MergeKeys(h, result, Head(objects),
                                KeySeq(OwnKeys(h, Head(objects)))),
                      result, Tail(objects))

deepMerge(h, objects) ==
    IF Len(objects) = 0 THEN New(h, EmptyObj)
    ELSE IF Len(objects) = 1 THEN [h |-> h, v |-> objects[1]]
    ELSE LET n == New(h, EmptyObj)
         IN [h |-> MergeObjects(n.h, n.v.a, objects), v |-> n.v]

MaxSources == 3    \* most sources of a deepMerge call

Rec1(key, x) == [k |-> "obj", props |-> [y \in {key} |-> x]]
Date0 == [k |-> "date", time |-> Num(0)]
Arr1 == [k |-> "arr", items |-> <<Num(1)>>]

\* the values found at a key of a source
MergeValues ==
    {Null, Num(1), Str(<<"a">>), Arr1, Date0, EmptyObj,
     Rec1(<<"a">>, Num(1)), Rec1(<<"b">>, Num(1)), Rec1(<<"a">>, Rec1(<<"b">>, Num(1)))}

\* the sources: the empty record and the records of one key
MergeSources == {EmptyObj} \cup {Rec1(key, x) : key \in Keys, x \in MergeValues}

InitMerge ==
    /\ op = "deepMerge"
    /\ \E lits \in SeqsUpTo(MergeSources, MaxSources) :
          LET r == AllocItems(<<>>, lits)
          IN heap = r.h /\ args = [objects |-> r.vs]
    /\ pc = "call"
    /\ ret = NoRet
    /\ work = <<>>

CallDeepMerge ==
    /\ pc = "call" /\ op = "deepMerge"
    /\ LET r == deepMerge(heap, args.objects)
       IN heap' = r.h /\ ret' = Return(r.v)
    /\ pc' = "done"
    /\ UNCHANGED <<op, args, work>>

NextMerge == CallDeepMerge

SpecMerge == InitMerge /\ [][NextMerge]_vars

\* the content of a value as a tree: the literal that would build it
RECURSIVE ToTree(_, _)
ToTree(h, v) ==
    IF v.k # "ref" THEN v
    ELSE LET o == h[v.a] IN
         CASE o.k = "obj" -> [k |-> "obj", props |-> [key \in DOMAIN o.props |-> ToTree(h, o.props[key])]]
           [] o.k = "arr" -> [k |-> "arr", items |-> [i \in 1..Len(o.items) |-> ToTree(h, o.items[i])]]
           [] o.k = "date" -> o
           [] o.k = "set" -> [k |-> "set", items |-> [i \in 1..Len(o.items) |-> ToTree(h, o.items[i])]]
           [] o.k = "map" -> [k |-> "map", entries |->
                                 [i \in 1..Len(o.entries) |->
                                     <<ToTree(h, o.entries[i][1]), ToTree(h, o.entries[i][2])>>]]

\* the merge the claim describes, on trees: two records merge key by key,
\* anything else is replaced by the incoming value
RECURSIVE ClaimedMerge(_, _), ClaimedFold(_, _)
ClaimedMerge(acc, inc) ==
    IF acc.k = "obj" /\ inc.k = "obj"
    THEN [k |-> "obj",
          props |-> [key \in DOMAIN acc.props \cup DOMAIN inc.props |->
                        IF key \notin DOMAIN inc.props THEN acc.props[key]
                        ELSE IF key \notin DOMAIN acc.props THEN inc.props[key]
                        ELSE ClaimedMerge(acc.props[key], inc.props[key])]]
    ELSE inc

ClaimedFold(acc, trees) ==
    IF trees = <<>> THEN acc ELSE ClaimedFold(ClaimedMerge(acc, Head(trees)), Tail(trees))

\* C8: deepMerge of two or more sources is the left-to-right fold in which two
\* records at a key merge recursively and any other incoming value replaces
\* the accumulated one.
C8_MergeIsClaimedFold ==
    (op = "deepMerge" /\ pc = "done" /\ Len(args.objects) >= 2) =>
        ToTree(heap, ret.v) =
            ClaimedFold(EmptyObj, [i \in 1..Len(args.objects) |-> ToTree(heap, args.objects[i])])

(***************************************************************************)
(* Weighted sampling (arrayUtils.ts:87-160).  An Array argument or result  *)
(* is a sequence of values; weights are integers.  Math.random() returns   *)
(* rnd / RandDenom for some rnd in 0..RandDenom-1, so 0 is among its       *)
(* values and 1 is not.                                                    *)
(***************************************************************************)
RandDenom == 4

LengthMismatchMsg == "Array and weights must have the same length"
InvalidWeightMsg == "Weights must be non-negative"

\* an Array value returned by a sampling function
List(items) == [k |-> "list", items |-> items]

\* weights.reduce((sum, weight) => sum + weight, 0)
RECURSIVE SumWeights(_)
SumWeights(weights) ==
    IF weights = <<>> THEN 0 ELSE Head(weights) + SumWeights(Tail(weights))

\* mismatch test that sees only an Array longer than its weights
LengthsDifferOneWay(array, weights) == Len(array) > Len(weights)

\* array.length !== weights.length
LengthsDiffer(array, weights) == Len(array) # Len(weights)

\* negative-weight test that looks at the total only
SomeNegativeByTotal(weights) == SumWeights(weights) < 0

\* weights.some(w => w < 0)
SomeNegative(weights) == \E i \in 1..Len(weights) : weights[i] < 0

\* the cumulative walk: the first i with random <= weights[0] + .. + weights[i],
\* where random = (rnd / RandDenom) * totalWeight; the last item as fallback
PickByWeight(array, weights, totalWeight, rnd) ==
    LET hits == {i \in 1..Len(array) :
                    rnd * totalWeight <= SumWeights(SubSeq(weights, 1, i)) * RandDenom}
    IN IF hits # {}
       THEN array[CHOOSE i \in hits : \A j \in hits : i <= j]
       ELSE array[Len(array)]

\* the same function with the length test made before the emptiness test
weightedSampleLengthFirst(array, weights, rnd) ==
    IF LengthsDiffer(array, weights) THEN Throw(LengthMismatchMsg)
    ELSE IF Len(array) = 0 THEN Return(Undef)
    ELSE IF SomeNegative(weights) THEN Throw(InvalidWeightMsg)
    ELSE LET totalWeight == SumWeights(weights)
         IN IF totalWeight = 0 THEN Return(Undef)
            ELSE Return(PickByWeight(array, weights, totalWeight, rnd))

weightedSample(array, weights, rnd) ==
    IF Len(array) = 0 \/ Len(weights) = 0 THEN Return(Undef)
    ELSE IF LengthsDiffer(array, weights) THEN Throw(LengthMismatchMsg)
    ELSE IF SomeNegative(weights) THEN Throw(InvalidWeightMsg)
    ELSE LET totalWeight == SumWeights(weights)
         IN IF totalWeight = 0 THEN Return(Undef)
            ELSE Return(PickByWeight(array, weights, totalWeight, rnd))

\* array.indexOf(x): the first index (from 0) of an item strictly equal to x,
\* -1 when there is none
IndexOf(array, x) ==
    LET found == {i \in 1..Len(array) : StrictEq(array[i], x)}
    IN IF found = {} THEN -1
       ELSE (CHOOSE i \in found : \A j \in found : i <= j) - 1

\* array.splice(index, 2): the removal takes the next item as well
SpliceTwo(array, index) ==
    LET start == IF index < 0
                 THEN (IF Len(array) + index < 0 THEN 0 ELSE Len(array) + index)
                 ELSE (IF index > Len(array) THEN Len(array) ELSE index)
    IN SubSeq(array, 1, start) \o SubSeq(array, start + 3, Len(array))

\* array.splice(index, 1): a negative index counts from the end
SpliceOne(array, index) ==
    LET start == IF index < 0
                 THEN (IF Len(array) + index < 0 THEN 0 ELSE Len(array) + index)
                 ELSE (IF index > Len(array) THEN Len(array) ELSE index)
    IN SubSeq(array, 1, start) \o SubSeq(array, start + 2, Len(array))

MaxItems == 2     \* most items, and most weights, of a call
MaxWeight == 2    \* largest weight
MaxN == 3         \* largest sample size asked for

ItemValues == {Str(<<"a">>), Str(<<"b">>), NaN, Undef}
WeightValues == (-1)..MaxWeight

\* the three sampling functions, called on any items and any weights; n is
\* read by the two sample-size functions only
InitSample ==
    /\ op \in {"weightedSample", "weightedSampleSize",
               "weightedSampleSizeWithoutReplacement"}
    /\ \E array \in SeqsUpTo(ItemValues, MaxItems),
          weights \in SeqsUpTo(WeightValues, MaxItems),
          n \in (-1)..MaxN :
          /\ op = "weightedSample" => n = 0
          /\ args = [array |-> array, weights |-> weights, n |-> n]
    /\ heap = <<>>
    /\ pc = "call"
    /\ ret = NoRet
    /\ work = <<>>

\* weightedSample(array, weights), with the value Math.random() returned kept
\* in work
CallWeightedSample ==
    /\ pc = "call" /\ op = "weightedSample"
    /\ \E rnd \in 0..(RandDenom - 1) :
          /\ ret' = weightedSample(args.array, args.weights, rnd)
          /\ work' = [rnd |-> rnd]
    /\ pc' = "done"
    /\ UNCHANGED <<heap, op, args>>

\* weightedSampleSize up to its loop (arrayUtils.ts:118-121)
SampleSizeStart ==
    /\ pc = "call" /\ op = "weightedSampleSize"
    /\ IF args.n <= 0 \/ Len(args.array) = 0 \/ Len(args.weights) = 0
       THEN /\ ret' = Return(List(<<>>))
            /\ pc' = "done"
            /\ work' = work
       ELSE /\ work' = [result |-> <<>>, i |-> 0]
            /\ pc' = "loop"
            /\ ret' = ret
    /\ UNCHANGED <<heap, op, args>>

\* one iteration of its loop (arrayUtils.ts:122-127); an exception of
\* weightedSample ends the call
SampleSizeStep ==
    /\ pc = "loop" /\ op = "weightedSampleSize"
    /\ work.i < args.n
    /\ \E rnd \in 0..(RandDenom - 1) :
          LET sample == weightedSample(args.array, args.weights, rnd)
          IN IF sample.kind = "throw"
             THEN ret' = sample /\ pc' = "done" /\ work' = work
             ELSE /\ work' = [result |-> IF sample.v # Undef
                                         THEN Append(work.result, sample.v)
                                         ELSE work.result,
                              i |-> work.i + 1]
                  /\ UNCHANGED <<ret, pc>>
    /\ UNCHANGED <<heap, op, args>>

\* the loop is over: return result (arrayUtils.ts:128)
SampleSizeReturn ==
    /\ pc = "loop" /\ op = "weightedSampleSize"
    /\ work.i >= args.n
    /\ ret' = Return(List(work.result))
    /\ pc' = "done"
    /\ UNCHANGED <<heap, op, args, work>>

Min(a, b) == IF a < b THEN a ELSE b

\* weightedSampleSizeWithoutReplacement up to its loop (arrayUtils.ts:139-147)
WithoutReplacementStart ==
    /\ pc = "call" /\ op = "weightedSampleSizeWithoutReplacement"
    /\ IF args.n <= 0 \/ Len(args.array) = 0 \/ Len(args.weights) = 0
       THEN ret' = Return(List(<<>>)) /\ pc' = "done" /\ work' = work
       ELSE IF LengthsDiffer(args.array, args.weights)
       THEN ret' = Throw(LengthMismatchMsg) /\ pc' = "done" /\ work' = work
       ELSE /\ work' = [availableItems |-> args.array,
                        availableWeights |-> args.weights,
                        result |-> <<>>, i |-> 0]
            /\ pc' = "loop"
            /\ ret' = ret
    /\ UNCHANGED <<heap, op, args>>

\* one iteration of its loop (arrayUtils.ts:149-157)
WithoutReplacementStep ==
    /\ pc = "loop" /\ op = "weightedSampleSizeWithoutReplacement"
    /\ work.i < Min(args.n, Len(args.array))
    /\ \E rnd \in 0..(RandDenom - 1) :
          LET sample == weightedSample(work.availableItems, work.availableWeights, rnd)
              index == IndexOf(work.availableItems, sample.v)
          IN IF sample.kind = "throw"
             THEN ret' = sample /\ pc' = "done" /\ work' = work
             ELSE /\ work' = IF sample.v # Undef
                             THEN [availableItems |-> SpliceOne(work.availableItems, index),
                                   availableWeights |-> SpliceOne(work.availableWeights, index),
                                   result |-> Append(work.result, sample.v),
                                   i |-> work.i + 1]
                             ELSE [work EXCEPT !.i = @ + 1]
                  /\ UNCHANGED <<ret, pc>>
    /\ UNCHANGED <<heap, op, args>>

\* the loop is over: return result (arrayUtils.ts:159)
WithoutReplacementReturn ==
    /\ pc = "loop" /\ op = "weightedSampleSizeWithoutReplacement"
    /\ work.i >= Min(args.n, Len(args.array))
    /\ ret' = Return(List(work.result))
    /\ pc' = "done"
    /\ UNCHANGED <<heap, op, args, work>>

NextSample ==
    \/ CallWeightedSample
    \/ SampleSizeStart
    \/ SampleSizeStep
    \/ SampleSizeReturn
    \/ WithoutReplacementStart
    \/ WithoutReplacementStep
    \/ WithoutReplacementReturn

SpecSample == InitSample /\ [][NextSample]_vars

\* items and weights of equal non-zero length, no weight negative
ValidWeights(array, weights) ==
    /\ Len(array) = Len(weights) /\ Len(array) > 0
    /\ \A i \in 1..Len(weights) : weights[i] >= 0

\* x is an item of the call that has a weight above zero
HasPositiveWeight(x) ==
    \E i \in 1..Len(args.array) : args.array[i] = x /\ args.weights[i] > 0

\* C2: with a positive total weight, weightedSample returns an item of
\* positive weight whatever Math.random() returns, and so is every element of
\* the result of weightedSampleSize.
C2_NeverZeroWeightItem ==
    (pc = "done" /\ ValidWeights(args.array, args.weights)
                 /\ SumWeights(args.weights) > 0) =>
        /\ op = "weightedSample" => (ret.kind = "return" /\ HasPositiveWeight(ret.v))
        /\ op = "weightedSampleSize" =>
              /\ ret.kind = "return"
              /\ \A j \in 1..Len(ret.v.items) : HasPositiveWeight(ret.v.items[j])

PairwiseDistinct(array) ==
    \A i, j \in 1..Len(array) : i # j => array[i] # array[j]

\* C3: on pairwise distinct items with as many non-negative weights,
\* weightedSampleSizeWithoutReplacement returns a list without duplicates, of
\* items of the call, of at most min(n, items.length) elements.
C3_UniqueSubsetBounded ==
    (op = "weightedSampleSizeWithoutReplacement" /\ pc = "done"
        /\ Len(args.array) = Len(args.weights)
        /\ PairwiseDistinct(args.array)
        /\ \A i \in 1..Len(args.weights) : args.weights[i] >= 0) =>
        /\ ret.kind = "return"
        /\ PairwiseDistinct(ret.v.items)
        /\ \A j \in 1..Len(ret.v.items) :
              \E i \in 1..Len(args.array) : args.array[i] = ret.v.items[j]
        /\ Len(ret.v.items) <= (IF args.n < 0 THEN 0 ELSE Min(args.n, Len(args.array)))

\* C9, as stated: weightedSample throws the length error whenever the two
\* lengths differ.
C9_MismatchAlwaysThrows ==
    (op = "weightedSample" /\ pc = "done" /\ Len(args.array) # Len(args.weights)) =>
        ret = Throw(LengthMismatchMsg)

\* C9, amended: weightedSample throws the length error whenever the two
\* lengths differ and neither is zero; when either is zero it returns undefined.
C9_MismatchThrowsUnlessEmpty ==
    (op = "weightedSample" /\ pc = "done") =>
        /\ (Len(args.array) # Len(args.weights)
              /\ Len(args.array) > 0 /\ Len(args.weights) > 0) =>
                 ret = Throw(LengthMismatchMsg)
        /\ (Len(args.array) = 0 \/ Len(args.weights) = 0) => ret = Return(Undef)

\* a call with fewer items than weights, none of the two empty, has thrown
C9_Witness ==
    /\ op = "weightedSample" /\ pc = "done"
    /\ Len(args.array) = 1 /\ Len(args.weights) = 2
    /\ ret = Throw(LengthMismatchMsg)

\* C10: weightedSample throws the weight error whenever items and weights are
\* non-empty, of equal length, and some weight is negative.
C10_NegativeWeightThrows ==
    (op = "weightedSample" /\ pc = "done"
        /\ Len(args.array) = Len(args.weights) /\ Len(args.array) > 0
        /\ \E i \in 1..Len(args.weights) : args.weights[i] < 0) =>
        ret = Throw(InvalidWeightMsg)

\* a call with a negative weight and a positive total has thrown
C10_Witness ==
    /\ op = "weightedSample" /\ pc = "done"
    /\ Len(args.array) = Len(args.weights)
    /\ \E i \in 1..Len(args.weights) : args.weights[i] < 0
    /\ SumWeights(args.weights) > 0
    /\ ret = Throw(InvalidWeightMsg)

\* C11: weightedSample returns undefined, without throwing, whenever items or
\* weights is empty (the other one empty or not) and whenever the lengths match
\* and every weight is zero; on non-empty items with as many non-negative
\* weights of positive total it returns one of the items.
C11_NoResultOrItem ==
    (op = "weightedSample" /\ pc = "done") =>
        /\ (Len(args.array) = 0 \/ Len(args.weights) = 0) => ret = Return(Undef)
        /\ (Len(args.array) = Len(args.weights)
              /\ \A i \in 1..Len(args.weights) : args.weights[i] = 0) =>
                 ret = Return(Undef)
        /\ (ValidWeights(args.array, args.weights) /\ SumWeights(args.weights) > 0) =>
                 /\ ret.kind = "return"
                 /\ \E i \in 1..Len(args.array) : args.array[i] = ret.v

\* a call without items but with two weights has returned undefined
C11_Witness ==
    /\ op = "weightedSample" /\ pc = "done"
    /\ Len(args.array) = 0 /\ Len(args.weights) = 2
    /\ ret = Return(Undef)

\* C12, as stated: on non-empty items with as many non-negative weights and
\* n > 0, weightedSampleSizeWithoutReplacement returns exactly
\* min(n, items.length) elements.
C12_ExactlyMinElements ==
    (op = "weightedSampleSizeWithoutReplacement" /\ pc = "done"
        /\ ValidWeights(args.array, args.weights) /\ args.n > 0) =>
        /\ ret.kind = "return"
        /\ Len(ret.v.items) = (IF args.n < Len(args.array) THEN args.n ELSE Len(args.array))

\* C12, amended: on such input the result never has more than
\* min(n, items.length) elements, and it has exactly that many when every
\* weight is positive and no item is undefined; a draw adds nothing when the
\* weights left in the pool sum to zero or when the item drawn is undefined.
C12_MinElementsWhenSampleable ==
    (op = "weightedSampleSizeWithoutReplacement" /\ pc = "done"
        /\ ValidWeights(args.array, args.weights) /\ args.n > 0) =>
        LET most == IF args.n < Len(args.array) THEN args.n ELSE Len(args.array)
        IN /\ ret.kind = "return"
           /\ Len(ret.v.items) <= most
           /\ ((\A i \in 1..Len(args.weights) : args.weights[i] > 0)
                 /\ (\A i \in 1..Len(args.array) : args.array[i] # Undef)) =>
                    Len(ret.v.items) = most

\* two items of positive weight were asked for and both were returned
C12_Witness ==
    /\ op = "weightedSampleSizeWithoutReplacement" /\ pc = "done"
    /\ Len(args.array) = 2 /\ args.n >= 2
    /\ \A i \in 1..Len(args.weights) : args.weights[i] > 0
    /\ ret.kind = "return" /\ Len(ret.v.items) = 2

\* a property exists at the path: every segment is an own key of the object
\* reached so far
RECURSIVE PathExists(_, _, _)
PathExists(h, current, keys) ==
    \/ keys = <<>>
    \/ /\ current.k = "ref"
       /\ Head(keys) \in OwnKeys(h, current)
       /\ PathExists(h, GetProp(h, current, Head(keys)), Tail(keys))

\* the tree of a record with the property at the path taken out
RECURSIVE RemoveAt(_, _)
RemoveAt(tree, keys) ==
    [k |-> "obj",
     props |-> IF Len(keys) = 1
               THEN [x \in DOMAIN tree.props \ {keys[1]} |-> tree.props[x]]
               ELSE [x \in DOMAIN tree.props |->
                        IF x = Head(keys) THEN RemoveAt(tree.props[x], Tail(keys))
                        ELSE tree.props[x]]]

\* C13: unset returns true exactly when a property existed at the path; it has
\* then removed that property and nothing else, and has on the path is false;
\* when no property existed there (a missing, null, undefined or primitive
\* intermediate or parent included) it returns false without throwing and
\* leaves the object as it was.
C13_UnsetTrueIffRemoved ==
    [][(op = "unset" /\ pc = "call") =>
          LET keys == Split(args.path)
              existed == PathExists(heap, args.obj, keys)
              before == ToTree(heap, args.obj)
          IN /\ ret' = Return(Bool(existed))
             /\ ToTree(heap', args.obj) = (IF existed THEN RemoveAt(before, keys) ELSE before)
             /\ existed => has(heap', args.obj, args.path) = Return(Bool(FALSE))]_vars

\* structural equality of two objects of one kind, as the claim spells it out:
\* Arrays item by item, records key by key, Dates by epoch offset, Sets and
\* Maps by the trees of what they hold; the values below them are compared by
\* deepEqual itself
ClaimedSameKindEqual(h, a, b) ==
    LET oa == h[a.a]
        ob == h[b.a]
    IN CASE oa.k = "arr" ->
               /\ Len(oa.items) = Len(ob.items)
               /\ \A i \in 1..Len(oa.items) : deepEqual(h, oa.items[i], ob.items[i])
         [] oa.k = "obj" ->
               /\ DOMAIN oa.props = DOMAIN ob.props
               /\ \A key \in DOMAIN oa.props : deepEqual(h, oa.props[key], ob.props[key])
         [] oa.k = "date" -> StrictEq(oa.time, ob.time)
         [] oa.k = "set" ->
               {ToTree(h, oa.items[i]) : i \in 1..Len(oa.items)}
                   = {ToTree(h, ob.items[i]) : i \in 1..Len(ob.items)}
         [] oa.k = "map" ->
               {<<ToTree(h, oa.entries[i][1]), ToTree(h, oa.entries[i][2])>> : i \in 1..Len(oa.entries)}
                   = {<<ToTree(h, ob.entries[i][1]), ToTree(h, ob.entries[i][2])>> : i \in 1..Len(ob.entries)}

\* C14: on two objects of the same kind deepEqual is structural: two Arrays
\* are equal iff of one length and equal item by item, two records iff of one
\* key set and equal key by key, two Dates iff of one epoch offset, two Sets
\* or two Maps iff of the same contents.
C14_SameKindStructural ==
    (op = "deepEqual" /\ pc = "done"
        /\ args.a.k = "ref" /\ args.b.k = "ref"
        /\ heap[args.a.a].k = heap[args.b.a].k) =>
        ret = Return(Bool(ClaimedSameKindEqual(heap, args.a, args.b)))

\* C15: a change made in place to any object reachable from the clone (Map
\* keys and Set elements included) leaves the content of the argument as it
\* was, and a change made to any object reachable from the argument leaves
\* the content of the clone as it was.
C15_NoSharedSubstructure ==
    [][(op = "deepClone" /\ pc = "done" /\ pc' = "mutated") =>
          /\ work'.side = "clone" => ToTree(heap', args.obj) = ToTree(heap, args.obj)
          /\ work'.side = "original" => ToTree(heap', ret.v) = ToTree(heap, ret.v)]_vars

\* an object used as a Map key inside the clone has been changed
C15_Witness ==
    /\ op = "deepClone" /\ pc = "mutated"
    /\ work.side = "clone" /\ work.a # ret.v.a
    /\ heap[ret.v.a].k = "map"
    /\ heap[ret.v.a].entries[1][1] = Ref(work.a)

(***************************************************************************)
(* Weighted aggregates (arrayUtils.ts:453-536).  Numbers are integers; a   *)
(* quotient that is not one is kept as the fraction it is.  The rounding   *)
(* of floating-point arithmetic is not modelled.                           *)
(***************************************************************************)
ValuesLengthMsg == "Values and weights must have the same length"

\* values.reduce((sum, value, index) => sum + value * weights[index], 0), for
\* values and weights of one length
RECURSIVE SumProducts(_, _)
SumProducts(values, weights) ==
    IF values = <<>> THEN 0
    ELSE Head(values).n * Head(weights) + SumProducts(Tail(values), Tail(weights))

\* n / d for d > 0
Quotient(n, d) == IF n % d = 0 THEN Num(n \div d) ELSE [k |-> "frac", n |-> n, d |-> d]

weightedAverage(values, weights) ==
    IF Len(values) = 0 \/ Len(weights) = 0 THEN Return(Num(0))
    ELSE IF LengthsDiffer(values, weights) THEN Throw(ValuesLengthMsg)
    ELSE LET totalWeight == SumWeights(weights)
         IN Return(IF totalWeight = 0 THEN Num(0)
                   ELSE Quotient(SumProducts(values, weights), totalWeight))

\* the same function with the length test made before the emptiness test
weightedSumLengthFirst(values, weights) ==
    IF LengthsDiffer(values, weights) THEN Throw(ValuesLengthMsg)
    ELSE Return(Num(SumProducts(values, weights)))

weightedSum(values, weights) ==
    IF Len(values) = 0 \/ Len(weights) = 0 THEN Return(Num(0))
    ELSE IF LengthsDiffer(values, weights) THEN Throw(ValuesLengthMsg)
    ELSE Return(Num(SumProducts(values, weights)))

\* a Map<T, number> returned by weightedFrequency: its entries in insertion order
MapVal(entries) == [k |-> "mapval", entries |-> entries]

\* frequency.get(item) || 0: the number stored at the key (keys are compared
\* by SameValueZero, under which NaN is NaN), 0 when there is none
FrequencyGet(entries, item) ==
    IF \E i \in 1..Len(entries) : entries[i][1] = item
    THEN entries[(CHOOSE i \in 1..Len(entries) : entries[i][1] = item)][2]
    ELSE 0

\* frequency.set(item, n): an existing key keeps its place
FrequencySet(entries, item, n) ==
    IF \E i \in 1..Len(entries) : entries[i][1] = item
    THEN [entries EXCEPT ![(CHOOSE i \in 1..Len(entries) : entries[i][1] = item)] = <<item, n>>]
    ELSE Append(entries, <<item, n>>)

\* array.forEach((item, index) => ...), for the items left
RECURSIVE FrequencyFold(_, _, _)
FrequencyFold(entries, array, weights) ==
    IF array = <<>> THEN entries
    ELSE FrequencyFold(FrequencySet(entries, Head(array),
                                    FrequencyGet(entries, Head(array)) + Head(weights)),
                       Tail(array), Tail(weights))

weightedFrequency(array, weights) ==
    IF LengthsDiffer(array, weights) THEN Throw(LengthMismatchMsg)
    ELSE Return(MapVal(FrequencyFold(<<>>, array, weights)))

\* the index the loop of weightedMax ends with: the first one of a largest weight
MaxIndex(weights) ==
    CHOOSE i \in 1..Len(weights) :
        /\ \A j \in 1..Len(weights) : weights[j] <= weights[i]
        /\ \A j \in 1..(i - 1) : weights[j] < weights[i]

weightedMax(array, weights) ==
    IF Len(array) = 0 \/ Len(weights) = 0 THEN Return(Undef)
    ELSE IF LengthsDiffer(array, weights) THEN Throw(LengthMismatchMsg)
    ELSE Return(array[MaxIndex(weights)])

\* the index the loop of weightedMin ends with: the first one of a smallest weight
MinIndex(weights) ==
    CHOOSE i \in 1..Len(weights) :
        /\ \A j \in 1..Len(weights) : weights[j] >= weights[i]
        /\ \A j \in 1..(i - 1) : weights[j] > weights[i]

weightedMin(array, weights) ==
    IF Len(array) = 0 \/ Len(weights) = 0 THEN Return(Undef)
    ELSE IF LengthsDiffer(array, weights) THEN Throw(LengthMismatchMsg)
    ELSE Return(array[MinIndex(weights)])

MaxValue == 2    \* largest value averaged or summed

NumberValues == {Num(n) : n \in 0..MaxValue}
AggregateWeights == 0..MaxWeight
NumericOps == {"weightedAverage", "weightedSum"}
AggregateOps == NumericOps \cup {"weightedFrequency", "weightedMax", "weightedMin"}

\* one call of an aggregate, on any two sequences of up to MaxItems elements:
\* numbers for weightedAverage and weightedSum, any items for the other three
InitAggregate ==
    /\ op \in AggregateOps
    /\ \E array \in SeqsUpTo(NumberValues \cup ItemValues, MaxItems),
          weights \in SeqsUpTo(AggregateWeights, MaxItems) :
          /\ \A i \in 1..Len(array) : array[i] \in (IF op \in NumericOps THEN NumberValues
                                                                         ELSE ItemValues)
          /\ args = [array |-> array, weights |-> weights]
    /\ heap = <<>>
    /\ pc = "call"
    /\ ret = NoRet
    /\ work = <<>>

CallWeightedAverage ==
    /\ pc = "call" /\ op = "weightedAverage"
    /\ ret' = weightedAverage(args.array, args.weights)
    /\ pc' = "done"
    /\ UNCHANGED <<heap, op, args, work>>

CallWeightedSum ==
    /\ pc = "call" /\ op = "weightedSum"
    /\ ret' = weightedSum(args.array, args.weights)
    /\ pc' = "done"
    /\ UNCHANGED <<heap, op, args, work>>

CallWeightedFrequency ==
    /\ pc = "call" /\ op = "weightedFrequency"
    /\ ret' = weightedFrequency(args.array, args.weights)
    /\ pc' = "done"
    /\ UNCHANGED <<heap, op, args, work>>

CallWeightedMax ==
    /\ pc = "call" /\ op = "weightedMax"
    /\ ret' = weightedMax(args.array, args.weights)
    /\ pc' = "done"
    /\ UNCHANGED <<heap, op, args, work>>

CallWeightedMin ==
    /\ pc = "call" /\ op = "weightedMin"
    /\ ret' = weightedMin(args.array, args.weights)
    /\ pc' = "done"
    /\ UNCHANGED <<heap, op, args, work>>

NextAggregate ==
    \/ CallWeightedAverage
    \/ CallWeightedSum
    \/ CallWeightedFrequency
    \/ CallWeightedMax
    \/ CallWeightedMin

SpecAggregate == InitAggregate /\ [][NextAggregate]_vars

\* what an aggregate yields on no input
EmptyResult(f) ==
    CASE f \in NumericOps -> Return(Num(0))
      [] f = "weightedFrequency" -> Return(MapVal(<<>>))
      [] OTHER -> Return(Undef)

\* the call has thrown one of the two length errors
ThrewLengthMismatch == ret \in {Throw(ValuesLengthMsg), Throw(LengthMismatchMsg)}

\* C16, as stated: each of the five aggregates throws the length error
\* whenever the two lengths differ, and yields its empty result (0, 0, an
\* empty map, undefined, undefined) on two empty inputs.
C16_MismatchAlwaysThrows ==
    (op \in AggregateOps /\ pc = "done") =>
        /\ Len(args.array) # Len(args.weights) => ThrewLengthMismatch
        /\ (Len(args.array) = 0 /\ Len(args.weights) = 0) => ret = EmptyResult(op)

\* C16, amended: weightedAverage, weightedSum, weightedMax and weightedMin
\* yield their empty result (0, 0, undefined, undefined) whenever either input
\* is empty, and throw the length error whenever the lengths differ and
\* neither is empty; weightedFrequency throws whenever the lengths differ and
\* yields an empty map on two empty inputs.
C16_MismatchThrowsUnlessEitherEmpty ==
    (op \in AggregateOps /\ pc = "done") =>
        IF op = "weightedFrequency"
        THEN /\ Len(args.array) # Len(args.weights) => ret = Throw(LengthMismatchMsg)
             /\ (Len(args.array) = 0 /\ Len(args.weights) = 0) => ret = EmptyResult(op)
        ELSE /\ (Len(args.array) = 0 \/ Len(args.weights) = 0) => ret = EmptyResult(op)
             /\ (Len(args.array) # Len(args.weights)
                   /\ Len(args.array) > 0 /\ Len(args.weights) > 0) => ThrewLengthMismatch

\* weightedSum of no value and two weights has returned 0
C16_Witness ==
    /\ op = "weightedSum" /\ pc = "done"
    /\ Len(args.array) = 0 /\ Len(args.weights) = 2
    /\ ret = Return(Num(0))

(***************************************************************************)
(* levenshteinDistance (stringUtils, src/unnamed/part_001:493-518).  A     *)
(* string is a sequence of characters (UTF-16 code units).                 *)
(***************************************************************************)

\* the indicator with the comparison of the two characters left out
IndicatorAlwaysOne(str1, str2, i, j) == 1

\* str1[i - 1] === str2[j - 1] ? 0 : 1, characters being counted from 1 here
Indicator(str1, str2, i, j) == IF str1[i] = str2[j] THEN 0 ELSE 1

\* Math.min of three numbers
Min3(a, b, c) == IF a <= b /\ a <= c THEN a ELSE IF b <= c THEN b ELSE c

\* matrix[j][i] once the loops have filled it: row 0 and column 0 hold their
\* index, every other cell the least of its three neighbours' costs
RECURSIVE MatrixCell(_, _, _, _)
MatrixCell(str1, str2, j, i) ==
    IF j = 0 THEN i
    ELSE IF i = 0 THEN j
    ELSE Min3(MatrixCell(str1, str2, j, i - 1) + 1,
              MatrixCell(str1, str2, j - 1, i) + 1,
              MatrixCell(str1, str2, j - 1, i - 1) + Indicator(str1, str2, i, j))

levenshteinDistance(str1, str2) == MatrixCell(str1, str2, Len(str2), Len(str1))

MaxStrLen == 3    \* most characters of a string compared

StrChars == {"a", "b"}
Strings == SeqsUpTo(StrChars, MaxStrLen)

InitLevenshtein ==
    /\ op = "levenshteinDistance"
    /\ \E str1 \in Strings, str2 \in Strings : args = [str1 |-> str1, str2 |-> str2]
    /\ heap = <<>>
    /\ pc = "call"
    /\ ret = NoRet
    /\ work = <<>>

CallLevenshteinDistance ==
    /\ pc = "call" /\ op = "levenshteinDistance"
    /\ ret' = Return(Num(levenshteinDistance(args.str1, args.str2)))
    /\ pc' = "done"
    /\ UNCHANGED <<heap, op, args, work>>

NextLevenshtein == CallLevenshteinDistance

SpecLevenshtein == InitLevenshtein /\ [][NextLevenshtein]_vars

\* the strings one edit away from s: a character inserted, deleted or replaced
OneEdit(s) ==
    {SubSeq(s, 1, p) \o <<c>> \o SubSeq(s, p + 1, Len(s)) : p \in 0..Len(s), c \in StrChars}
    \cup {SubSeq(s, 1, p - 1) \o SubSeq(s, p + 1, Len(s)) : p \in 1..Len(s)}
    \cup {[s EXCEPT ![p] = c] : p \in 1..Len(s), c \in StrChars}

\* the least number of edits that lead from a string of S to b, S being the
\* strings at most k edits away from the start
RECURSIVE EditsFrom(_, _, _)
EditsFrom(S, b, k) ==
    IF b \in S THEN k
    ELSE EditsFrom(S \cup UNION {OneEdit(s) : s \in S}, b, k + 1)

\* C17: levenshteinDistance(a, b) is the least number of single-character
\* insertions, deletions and substitutions that turn a into b; it is 0 on
\* (x, x) and the length of s on ('', s) and on (s, '').
C17_MinimumEdits ==
    (op = "levenshteinDistance" /\ pc = "done") =>
        /\ ret = Return(Num(EditsFrom({args.str1}, args.str2, 0)))
        /\ args.str1 = args.str2 => ret = Return(Num(0))
        /\ args.str1 = <<>> => ret = Return(Num(Len(args.str2)))
        /\ args.str2 = <<>> => ret = Return(Num(Len(args.str1)))

\* a string of three characters was found two edits away from one of two
C17_Witness ==
    /\ op = "levenshteinDistance" /\ pc = "done"
    /\ Len(args.str1) = 3 /\ Len(args.str2) = 2
    /\ ret = Return(Num(2))

(***************************************************************************)
(* isValidCreditCard (stringUtils, src/unnamed/part_001:532-554).          *)
(***************************************************************************)
MinCardDigits == 13
MaxCardDigits == 19

\* the character is matched by \d
IsDigit(c) == \E i \in 1..Len(Digits) : Digits[i] = c

\* str.replace(/\D/g, ''): the digits of str, in order
Cleaned(str) == SelectSeq(str, IsDigit)

\* parseInt(c, 10) for a digit c
DigitValue(c) == (CHOOSE i \in 1..Len(Digits) : Digits[i] = c) - 1

\* the doubling without the reduction by 9
DoubleDigitNoReduce(digit) == digit * 2

\* digit *= 2; if (digit > 9) digit -= 9
DoubleDigit(digit) == IF digit * 2 > 9 THEN digit * 2 - 9 ELSE digit * 2

\* what the loop adds to sum from index i (counted from 1) down to the first
\* digit, isEven being the flag on entry
RECURSIVE LuhnLoop(_, _, _)
LuhnLoop(cleaned, i, isEven) ==
    IF i = 0 THEN 0
    ELSE (IF isEven THEN DoubleDigit(DigitValue(cleaned[i])) ELSE DigitValue(cleaned[i]))
         + LuhnLoop(cleaned, i - 1, ~isEven)

isValidCreditCard(str) ==
    LET cleaned == Cleaned(str)
    IN IF Len(cleaned) < MinCardDigits \/ Len(cleaned) > MaxCardDigits THEN FALSE
       ELSE LuhnLoop(cleaned, Len(cleaned), FALSE) % 10 = 0

MaxTail == 4    \* most characters typed after the beginning of a card number

\* what a card number starts with: nothing, the first twelve digits of the
\* card of the tests with and without dashes, and seventeen digits
CardPrefixes ==
    {<<>>,
     <<"4", "5", "3", "2", "0", "1", "5", "1", "1", "2", "8", "3">>,
     <<"4", "5", "3", "2", "-", "0", "1", "5", "1", "-", "1", "2", "8", "3", "-">>,
     <<"4", "5", "3", "2", "0", "1", "5", "1", "1", "2", "8", "3", "0", "3", "6", "6", "2">>}
CardChars == {"0", "3", "6", "-", " "}
Cards == {prefix \o t : prefix \in CardPrefixes, t \in SeqsUpTo(CardChars, MaxTail)}

\* typeof value === 'string'
isString(value) == value \in Seq(STRING)

\* parseInt(c) for a digit c: without a radix a single digit is read as
\* decimal
ParseInt(c) == (CHOOSE i \in 1..Len(Digits) : Digits[i] = c) - 1

\* what the loop of isCreditCard adds to sum from index i (counted from 1)
\* down to the first digit, isEven being the flag on entry
RECURSIVE CreditCardLoop(_, _, _)
CreditCardLoop(cleaned, i, isEven) ==
    IF i = 0 THEN 0
    ELSE LET digit == ParseInt(cleaned[i])
             doubled == IF digit * 2 > 9 THEN digit * 2 - 9 ELSE digit * 2
         IN (IF isEven THEN doubled ELSE digit) + CreditCardLoop(cleaned, i - 1, ~isEven)

\* isCreditCard refusing more than sixteen digits
isCreditCardSixteen(value) ==
    IF ~isString(value) THEN FALSE
    ELSE LET cleaned == SelectSeq(value, IsDigit)
         IN IF Len(cleaned) < 13 \/ Len(cleaned) > 16 THEN FALSE
            ELSE CreditCardLoop(cleaned, Len(cleaned), FALSE) % 10 = 0

isCreditCard(value) ==
    IF ~isString(value) THEN FALSE
    ELSE LET cleaned == SelectSeq(value, IsDigit)
         IN IF Len(cleaned) < 13 \/ Len(cleaned) > 19 THEN FALSE
            ELSE CreditCardLoop(cleaned, Len(cleaned), FALSE) % 10 = 0

InitLuhn ==
    /\ op \in {"isValidCreditCard", "isCreditCard"}
    /\ \E str \in Cards : args = [str |-> str]
    /\ heap = <<>>
    /\ pc = "call"
    /\ ret = NoRet
    /\ work = <<>>

CallIsValidCreditCard ==
    /\ pc = "call" /\ op = "isValidCreditCard"
    /\ ret' = Return(Bool(isValidCreditCard(args.str)))
    /\ pc' = "done"
    /\ UNCHANGED <<heap, op, args, work>>

CallIsCreditCard ==
    /\ pc = "call" /\ op = "isCreditCard"
    /\ ret' = Return(Bool(isCreditCard(args.str)))
    /\ pc' = "done"
    /\ UNCHANGED <<heap, op, args, work>>

NextLuhn == CallIsValidCreditCard \/ CallIsCreditCard

SpecLuhn == InitLuhn /\ [][NextLuhn]_vars

\* the Luhn sum as the claim states it: the digit at each odd place from the
\* right, and at each even place its double, less 9 when the double exceeds 9
RECURSIVE ClaimedLuhnSum(_, _)
ClaimedLuhnSum(digits, place) ==
    IF place > Len(digits) THEN 0
    ELSE LET d == DigitValue(digits[Len(digits) + 1 - place])
         IN (IF place % 2 = 1 THEN d ELSE IF 2 * d > 9 THEN 2 * d - 9 ELSE 2 * d)
            + ClaimedLuhnSum(digits, place + 1)

IsSeparator(c) == c \in {"-", " "}
NotSeparator(c) == ~IsSeparator(c)

\* C18: isValidCreditCard is false when the number of digits of the string is
\* outside 13..19, and otherwise true iff the Luhn sum of its digits is
\* divisible by 10; it gives the string with its spaces and dashes taken out
\* the same answer.
C18_LuhnOverDigits ==
    (op = "isValidCreditCard" /\ pc = "done") =>
        LET digits == SelectSeq(args.str, IsDigit)
        IN /\ (Len(digits) < 13 \/ Len(digits) > 19) => ret = Return(Bool(FALSE))
           /\ (Len(digits) >= 13 /\ Len(digits) <= 19) =>
                 ret = Return(Bool(ClaimedLuhnSum(digits, 1) % 10 = 0))
           /\ ret = Return(Bool(isValidCreditCard(SelectSeq(args.str, NotSeparator))))

\* a number of sixteen digits written with a separator was found valid
C18_Witness ==
    /\ op = "isValidCreditCard" /\ pc = "done"
    /\ Len(Cleaned(args.str)) = 16
    /\ \E p \in 1..Len(args.str) : IsSeparator(args.str[p])
    /\ ret = Return(Bool(TRUE))

(***************************************************************************)
(* once (functional utilities, src/__tests__/dateUtils.test.ts:410-421).   *)
(* The wrapped function is any function: each invocation of it returns a   *)
(* value or throws, whatever it was called with.  work holds the captured  *)
(* variables called and result, the invocations of the wrapped function    *)
(* (fcalls) and the calls of the wrapper (gcalls), each with its argument  *)
(* and its outcome.                                                        *)
(***************************************************************************)
MaxCalls == 3    \* most calls made to a wrapper

CallArgs == {Num(1), Str(<<"1">>), Null, Undef}
FuncResults == {Num(2), Undef}
FuncOutcomes == {Return(v) : v \in FuncResults} \cup {Throw("Error")}

\* the wrapper with called set only once func has returned
OnceCallFlagAfter(c, x, out) ==
    IF ~c.called
    THEN IF out.kind = "return"
         THEN [called |-> TRUE, result |-> out.v, invoked |-> TRUE, ret |-> out]
         ELSE [called |-> FALSE, result |-> c.result, invoked |-> TRUE, ret |-> out]
    ELSE [called |-> TRUE, result |-> c.result, invoked |-> FALSE, ret |-> Return(c.result)]

\* one call of the wrapper, c being the captured variables and out what func
\* does if it is invoked: the captured variables after it, whether func was
\* invoked, and the outcome.  called is set before func runs, and an
\* exception of func leaves result as it was.
OnceCall(c, x, out) ==
    IF ~c.called
    THEN IF out.kind = "return"
         THEN [called |-> TRUE, result |-> out.v, invoked |-> TRUE, ret |-> out]
         ELSE [called |-> TRUE, result |-> c.result, invoked |-> TRUE, ret |-> out]
    ELSE [called |-> TRUE, result |-> c.result, invoked |-> FALSE, ret |-> Return(c.result)]

\* once(func) has just returned the wrapper
InitOnce ==
    /\ op = "once"
    /\ args = <<>>
    /\ heap = <<>>
    /\ pc = "ready"
    /\ ret = NoRet
    /\ work = [called |-> FALSE, result |-> Undef, fcalls |-> <<>>, gcalls |-> <<>>]

\* the wrapper is called with x
CallOnce ==
    /\ op = "once" /\ pc = "ready"
    /\ Len(work.gcalls) < MaxCalls
    /\ \E x \in CallArgs, out \in FuncOutcomes :
          LET r == OnceCall(work, x, out)
          IN /\ work' = [called |-> r.called,
                         result |-> r.result,
                         fcalls |-> IF r.invoked
                                    THEN Append(work.fcalls, [x |-> x, out |-> out])
                                    ELSE work.fcalls,
                         gcalls |-> Append(work.gcalls, [x |-> x, out |-> r.ret])]
             /\ ret' = r.ret
    /\ UNCHANGED <<heap, op, args, pc>>

NextOnce == CallOnce

SpecOnce == InitOnce /\ [][NextOnce]_vars

\* C19, as stated: once the wrapper has been called, func has been invoked
\* exactly once, with the argument of the first call, and every call of the
\* wrapper has returned the value that invocation produced.
C19_EveryCallReturnsFirstResult ==
    (op = "once" /\ Len(work.gcalls) >= 1) =>
        /\ Len(work.fcalls) = 1
        /\ work.fcalls[1].x = work.gcalls[1].x
        /\ work.fcalls[1].out.kind = "return"
        /\ \A i \in 1..Len(work.gcalls) : work.gcalls[i].out = work.fcalls[1].out

\* C19, amended: once the wrapper has been called, func has been invoked
\* exactly once, with the argument of the first call; if that invocation
\* returned a value every call of the wrapper has returned it, and if it
\* threw, the first call has thrown the same and every later call has
\* returned undefined.
C19_InvokedOnceResultKept ==
    (op = "once" /\ Len(work.gcalls) >= 1) =>
        /\ Len(work.fcalls) = 1
        /\ work.fcalls[1].x = work.gcalls[1].x
        /\ work.gcalls[1].out = work.fcalls[1].out
        /\ \A i \in 2..Len(work.gcalls) :
              work.gcalls[i].out = (IF work.fcalls[1].out.kind = "return"
                                    THEN work.fcalls[1].out
                                    ELSE Return(Undef))

\* three calls with arguments that differ have all returned what the one
\* invocation of func returned
C19_Witness ==
    /\ op = "once" /\ Len(work.gcalls) = 3
    /\ work.gcalls[2].x # work.gcalls[1].x /\ work.gcalls[3].x # work.gcalls[2].x
    /\ Len(work.fcalls) = 1
    /\ \A i \in 1..3 : work.gcalls[i].out = Return(Num(2))

(***************************************************************************)
(* memoize (functional utilities, src/__tests__/dateUtils.test.ts:322-339).*)
(* The wrapper is called with one argument.  work holds the cache (the     *)
(* entries of the Map, in insertion order), the invocations of the wrapped *)
(* function (fcalls) and the calls of the wrapper (mcalls).                *)
(***************************************************************************)
Quote == "\""

\* the JSON text of a value inside an array: undefined and NaN are written null
JsonValue(v) ==
    CASE v.k = "num" -> IndexKey(v.n)
      [] v.k = "str" -> <<Quote>> \o v.s \o <<Quote>>
      [] v.k = "bool" -> IF v.b THEN <<"t", "r", "u", "e">> ELSE <<"f", "a", "l", "s", "e">>
      [] OTHER -> <<"n", "u", "l", "l">>

\* JSON.stringify(args) for the arguments xs
RECURSIVE JsonItems(_)
JsonItems(xs) ==
    IF xs = <<>> THEN <<>>
    ELSE IF Len(xs) = 1 THEN JsonValue(xs[1])
    ELSE JsonValue(Head(xs)) \o <<",">> \o JsonItems(Tail(xs))

JsonStringify(xs) == <<"[">> \o JsonItems(xs) \o <<"]">>

\* the key generator x => `${x}`: the string conversion of the argument
TemplateKey(xs) ==
    LET v == xs[1]
    IN CASE v.k = "num" -> IndexKey(v.n)
         [] v.k = "str" -> v.s
         [] v.k = "bool" -> IF v.b THEN <<"t", "r", "u", "e">> ELSE <<"f", "a", "l", "s", "e">>
         [] v.k = "null" -> <<"n", "u", "l", "l">>
         [] v.k = "nan" -> <<"N", "a", "N">>
         [] v.k = "undef" -> <<"u", "n", "d", "e", "f", "i", "n", "e", "d">>

KeyGenerators == {"none", "template"}

\* keyGenerator ? keyGenerator(...args) : JSON.stringify(args)
KeyOf(keyGenerator, xs) ==
    IF keyGenerator = "none" THEN JsonStringify(xs) ELSE TemplateKey(xs)

\* cache.get(key): undefined when the Map has no such key
CacheGet(cache, key) ==
    IF \E i \in 1..Len(cache) : cache[i][1] = key
    THEN cache[(CHOOSE i \in 1..Len(cache) : cache[i][1] = key)][2]
    ELSE Undef

\* the test of the cache made on the value stored instead of on the key
CacheHasDefined(cache, key) == CacheGet(cache, key) # Undef

\* cache.has(key)
CacheHas(cache, key) == \E i \in 1..Len(cache) : cache[i][1] = key

\* cache.set(key, value): an existing key keeps its place
CacheSet(cache, key, value) ==
    IF \E i \in 1..Len(cache) : cache[i][1] = key
    THEN [cache EXCEPT ![(CHOOSE i \in 1..Len(cache) : cache[i][1] = key)] = <<key, value>>]
    ELSE Append(cache, <<key, value>>)

\* one call of the wrapper with the arguments xs, out being what func does if
\* it is invoked: the cache after it, whether func was invoked, the outcome.
\* An exception of func leaves the cache as it was.
MemoizedCall(cache, keyGenerator, xs, out) ==
    LET key == KeyOf(keyGenerator, xs)
    IN IF CacheHas(cache, key)
       THEN [cache |-> cache, invoked |-> FALSE, ret |-> Return(CacheGet(cache, key))]
       ELSE IF out.kind = "return"
       THEN [cache |-> CacheSet(cache, key, out.v), invoked |-> TRUE, ret |-> out]
       ELSE [cache |-> cache, invoked |-> TRUE, ret |-> out]

\* memoize(func) or memoize(func, keyGenerator) has just returned the wrapper
InitMemoize ==
    /\ op = "memoize"
    /\ \E keyGenerator \in KeyGenerators : args = [keyGenerator |-> keyGenerator]
    /\ heap = <<>>
    /\ pc = "ready"
    /\ ret = NoRet
    /\ work = [cache |-> <<>>, fcalls |-> <<>>, mcalls |-> <<>>]

\* the wrapper is called with x
CallMemoized ==
    /\ op = "memoize" /\ pc = "ready"
    /\ Len(work.mcalls) < MaxCalls
    /\ \E x \in CallArgs, out \in FuncOutcomes :
          LET r == MemoizedCall(work.cache, args.keyGenerator, <<x>>, out)
              key == KeyOf(args.keyGenerator, <<x>>)
          IN /\ work' = [cache |-> r.cache,
                         fcalls |-> IF r.invoked
                                    THEN Append(work.fcalls, [x |-> x, key |-> key, out |-> out])
                                    ELSE work.fcalls,
                         mcalls |-> Append(work.mcalls, [x |-> x, key |-> key, out |-> r.ret,
                                                         invoked |-> r.invoked])]
             /\ ret' = r.ret
    /\ UNCHANGED <<heap, op, args, pc>>

NextMemoize == CallMemoized

SpecMemoize == InitMemoize /\ [][NextMemoize]_vars

\* the least element of a non-empty set of numbers
Least(S) == CHOOSE x \in S : \A y \in S : x <= y

\* as many invocations of func as calls of the wrapper that invoked it, each
\* call handing on what its invocation returned or threw
InvocationsMatchCalls ==
    LET invoking == {i \in 1..Len(work.mcalls) : work.mcalls[i].invoked}
    IN /\ Len(work.fcalls) = Cardinality(invoking)
       /\ \A i \in invoking :
             LET a == Cardinality({j \in invoking : j <= i})
                 c == work.mcalls[i]
             IN work.fcalls[a] = [x |-> c.x, key |-> c.key, out |-> c.out]

\* C20, as stated: func is invoked at most once per cache key; a call whose
\* key an earlier call had does not invoke func and returns what the first
\* call with that key returned; a call with a new key invokes func once and
\* caches what it returns.
C20_OncePerKey ==
    op = "memoize" =>
        /\ \A a, b \in 1..Len(work.fcalls) : a # b => work.fcalls[a].key # work.fcalls[b].key
        /\ InvocationsMatchCalls
        /\ \A i \in 1..Len(work.mcalls) :
              LET c == work.mcalls[i]
                  seen == {j \in 1..(i - 1) : work.mcalls[j].key = c.key}
              IN /\ c.key = KeyOf(args.keyGenerator, <<c.x>>)
                 /\ seen # {} => (~c.invoked /\ c.out = work.mcalls[Least(seen)].out)
                 /\ seen = {} =>
                       /\ c.invoked
                       /\ c.out.kind = "return" =>
                             \E e \in 1..Len(work.cache) : work.cache[e] = <<c.key, c.out.v>>

\* C20, amended: func returns at most once per cache key, and is not invoked
\* for a key after it has returned for it; a call whose key an earlier call
\* that returned had does not invoke func and returns what the first such
\* call returned; any other call invokes func once, hands on what it returns
\* or throws, and caches what it returns; nothing is cached when it throws.
C20_OncePerCachedKey ==
    op = "memoize" =>
        /\ \A a, b \in 1..Len(work.fcalls) :
              (a < b /\ work.fcalls[a].key = work.fcalls[b].key) =>
                  work.fcalls[a].out.kind = "throw"
        /\ InvocationsMatchCalls
        /\ \A i \in 1..Len(work.mcalls) :
              LET c == work.mcalls[i]
                  cached == {j \in 1..(i - 1) : /\ work.mcalls[j].key = c.key
                                                /\ work.mcalls[j].out.kind = "return"}
              IN /\ c.key = KeyOf(args.keyGenerator, <<c.x>>)
                 /\ cached # {} => (~c.invoked /\ c.out = work.mcalls[Least(cached)].out)
                 /\ cached = {} =>
                       /\ c.invoked
                       /\ c.out.kind = "return" =>
                             \E e \in 1..Len(work.cache) : work.cache[e] = <<c.key, c.out.v>>
        /\ \A e \in 1..Len(work.cache) :
              \E i \in 1..Len(work.mcalls) :
                  /\ work.mcalls[i].invoked
                  /\ work.mcalls[i].out = Return(work.cache[e][2])
                  /\ work.mcalls[i].key = work.cache[e][1]

\* a call with another argument of the same key has returned the cached
\* result, undefined, without invoking func
C20_Witness ==
    /\ op = "memoize" /\ Len(work.mcalls) >= 2
    /\ work.mcalls[1].x # work.mcalls[2].x
    /\ work.mcalls[1].key = work.mcalls[2].key
    /\ work.mcalls[1].out = Return(Undef)
    /\ ~work.mcalls[2].invoked
    /\ work.mcalls[2].out = Return(Undef)

\* ------------------------------------------------------------------
\* Timers.  The clock now counts milliseconds; setTimeout queues a
\* callback that runs once its delay has passed, and the clock does not
\* move past a callback that is due.  Callbacks that are due run in the
\* order they were queued.
\* ------------------------------------------------------------------

MaxClock == 4    \* last instant of the clock
MaxWait == 2     \* longest delay handed to setTimeout

Waits == 0..MaxWait
TimedArgs == {Num(1), Num(2)}

SetTimeout(timers, id, due, arg) ==
    Append(timers, [id |-> id, due |-> due, arg |-> arg])

\* clearTimeout that cancels nothing
ClearTimeoutNothing(timers, id) == timers

\* clearTimeout(id): a handle that is undefined (0), has already run or was
\* already cleared cancels nothing
ClearTimeout(timers, id) == SelectSeq(timers, LAMBDA t : t.id # id)

SomeDue(timers, now) == \E i \in 1..Len(timers) : timers[i].due <= now

\* the queue without its callback i, which runs
Dequeue(timers, i) ==
    SubSeq(timers, 1, i - 1) \o SubSeq(timers, i + 1, Len(timers))

FirstDue(timers, now) ==
    CHOOSE i \in 1..Len(timers) :
        /\ timers[i].due <= now
        /\ \A j \in 1..(i - 1) : timers[j].due > now

\* ------------------------------------------------------------------
\* debounce
\* ------------------------------------------------------------------

\* debounce(func, wait) has just returned the debounced function; timeout
\* is the captured handle, 0 while it is undefined
InitDebounce ==
    /\ op = "debounce"
    /\ \E wait \in Waits : args = [wait |-> wait]
    /\ heap = <<>>
    /\ pc = "ready"
    /\ ret = NoRet
    /\ work = [now |-> 0, timers |-> <<>>, nextId |-> 1, timeout |-> 0,
               fcalls |-> <<>>, dcalls |-> <<>>]

\* the debounced function is called with x
CallDebounced ==
    /\ op = "debounce" /\ pc = "ready"
    /\ Len(work.dcalls) < MaxCalls
    /\ \E x \in TimedArgs :
          work' = [work EXCEPT
                     !.timers = SetTimeout(ClearTimeout(work.timers, work.timeout),
                                           work.nextId, work.now + args.wait, x),
                     !.timeout = work.nextId,
                     !.nextId = work.nextId + 1,
                     !.dcalls = Append(work.dcalls, [t |-> work.now, x |-> x])]
    /\ ret' = Return(Undef)
    /\ UNCHANGED <<heap, op, args, pc>>

\* the queued callback runs: func is invoked with the arguments kept by the
\* call that queued it.  Whatever func does there, the debounced function
\* keeps no trace of it.
DebounceTimerFires ==
    /\ op = "debounce" /\ pc = "ready"
    /\ SomeDue(work.timers, work.now)
    /\ LET i == FirstDue(work.timers, work.now)
       IN work' = [work EXCEPT
                     !.timers = Dequeue(work.timers, i),
                     !.fcalls = Append(work.fcalls,
                                       [t |-> work.now, x |-> work.timers[i].arg])]
    /\ UNCHANGED <<heap, op, args, pc, ret>>

\* a millisecond passes
DebounceTick ==
    /\ op = "debounce" /\ pc = "ready"
    /\ work.now < MaxClock
    /\ ~SomeDue(work.timers, work.now)
    /\ work' = [work EXCEPT !.now = work.now + 1]
    /\ UNCHANGED <<heap, op, args, pc, ret>>

NextDebounce == CallDebounced \/ DebounceTimerFires \/ DebounceTick

SpecDebounce == InitDebounce /\ [][NextDebounce]_vars

\* the call i of the debounced function is followed by a call less than wait
\* ms later
Superseded(i) ==
    /\ i < Len(work.dcalls)
    /\ work.dcalls[i + 1].t < work.dcalls[i].t + args.wait

\* the call i ends a burst that is over: more than wait ms have gone by
\* without a call
BurstOver(i) ==
    IF i < Len(work.dcalls)
    THEN work.dcalls[i + 1].t > work.dcalls[i].t + args.wait
    ELSE work.now > work.dcalls[i].t + args.wait

\* the invocations of func that answer the call i: wait ms after it, with
\* its argument
Answers(i) ==
    {k \in 1..Len(work.fcalls) :
        work.fcalls[k] = [t |-> work.dcalls[i].t + args.wait, x |-> work.dcalls[i].x]}

\* C21: a call of the debounced function never invokes func itself; every
\* invocation of func happens wait ms after a call that no later call
\* followed by less than wait ms, with the argument of that call, and at
\* most once for that call; and once a burst of calls less than wait ms apart is
\* over, func has been invoked exactly once for it, wait ms after its last
\* call and with the argument of that call.
C21_OncePerBurstAfterWait ==
    /\ [][(op = "debounce" /\ Len(work'.dcalls) > Len(work.dcalls))
             => work'.fcalls = work.fcalls]_vars
    /\ [](op = "debounce" =>
            /\ \E m \in [1..Len(work.fcalls) -> 1..Len(work.dcalls)] :
                  /\ \A k \in 1..Len(work.fcalls) :
                        /\ k \in Answers(m[k])
                        /\ ~Superseded(m[k])
                  /\ \A k, l \in 1..Len(work.fcalls) : m[k] = m[l] => k = l
                  /\ \A i \in 1..Len(work.dcalls) :
                        BurstOver(i) => \E k \in 1..Len(work.fcalls) : m[k] = i)

\* three calls less than wait ms apart, the arguments differing, have been
\* answered by one invocation of func, with the argument of the last call
C21_Witness ==
    /\ op = "debounce"
    /\ Len(work.dcalls) = 3
    /\ Superseded(1) /\ Superseded(2) /\ BurstOver(3)
    /\ work.dcalls[2].x # work.dcalls[3].x
    /\ work.dcalls[1].t < work.dcalls[3].t
    /\ Len(work.fcalls) = 1
    /\ work.fcalls[1].x = work.dcalls[3].x

\* ------------------------------------------------------------------
\* throttle
\* ------------------------------------------------------------------

\* one call of the throttled function, out being what func does if it is
\* invoked: whether func is invoked, the captured flag after the call,
\* whether the callback that resets it is queued, and the outcome.
\* inThrottle is set after func has returned, so an exception of func
\* leaves the flag unset and queues nothing.
ThrottledCall(inThrottle, out) ==
    IF ~inThrottle
    THEN IF out.kind = "return"
         THEN [invoked |-> TRUE, inThrottle |-> TRUE, queued |-> TRUE,
               ret |-> Return(Undef)]
         ELSE [invoked |-> TRUE, inThrottle |-> FALSE, queued |-> FALSE,
               ret |-> out]
    ELSE [invoked |-> FALSE, inThrottle |-> TRUE, queued |-> FALSE,
          ret |-> Return(Undef)]

\* throttle(func, wait) has just returned the throttled function; the
\* captured inThrottle is undefined, which reads as false
InitThrottle ==
    /\ op = "throttle"
    /\ \E wait \in Waits : args = [wait |-> wait]
    /\ heap = <<>>
    /\ pc = "ready"
    /\ ret = NoRet
    /\ work = [now |-> 0, timers |-> <<>>, nextId |-> 1, inThrottle |-> FALSE,
               fcalls |-> <<>>, tcalls |-> <<>>]

\* the throttled function is called with x
CallThrottled ==
    /\ op = "throttle" /\ pc = "ready"
    /\ Len(work.tcalls) < MaxCalls
    /\ \E x \in TimedArgs, out \in FuncOutcomes :
          LET r == ThrottledCall(work.inThrottle, out)
          IN /\ work' = [work EXCEPT
                          !.inThrottle = r.inThrottle,
                          !.timers = IF r.queued
                                     THEN SetTimeout(work.timers, work.nextId,
                                                     work.now + args.wait, Undef)
                                     ELSE work.timers,
                          !.nextId = IF r.queued THEN work.nextId + 1 ELSE work.nextId,
                          !.fcalls = IF r.invoked
                                     THEN Append(work.fcalls,
                                                 [t |-> work.now, x |-> x, out |-> out])
                                     ELSE work.fcalls,
                          !.tcalls = Append(work.tcalls,
                                            [t |-> work.now, x |-> x,
                                             invoked |-> r.invoked, out |-> r.ret])]
             /\ ret' = r.ret
    /\ UNCHANGED <<heap, op, args, pc>>

\* the queued callback runs: inThrottle = false
ThrottleTimerFires ==
    /\ op = "throttle" /\ pc = "ready"
    /\ SomeDue(work.timers, work.now)
    /\ work' = [work EXCEPT
                  !.timers = Dequeue(work.timers, FirstDue(work.timers, work.now)),
                  !.inThrottle = FALSE]
    /\ UNCHANGED <<heap, op, args, pc, ret>>

\* a millisecond passes
ThrottleTick ==
    /\ op = "throttle" /\ pc = "ready"
    /\ work.now < MaxClock
    /\ ~SomeDue(work.timers, work.now)
    /\ work' = [work EXCEPT !.now = work.now + 1]
    /\ UNCHANGED <<heap, op, args, pc, ret>>

NextThrottle == CallThrottled \/ ThrottleTimerFires \/ ThrottleTick

SpecThrottle == InitThrottle /\ [][NextThrottle]_vars

Greatest(S) == CHOOSE x \in S : \A y \in S : x >= y

\* the calls before the call i that invoked func
InvokedBefore(i) == {j \in 1..(i - 1) : work.tcalls[j].invoked}

\* C22: func is invoked by calls of the throttled function only, at the
\* moment of the call and with its argument, and two invocations are never
\* less than wait ms apart; the first call invokes func, a call made less
\* than wait ms after the last invocation does not, and a call made more
\* than wait ms after the last invocation does.
C22_AtMostOncePerWait ==
    op = "throttle" =>
        /\ Len(work.fcalls) = Cardinality(InvokedBefore(Len(work.tcalls) + 1))
        /\ \A k \in 1..Len(work.fcalls) :
              \E i \in 1..Len(work.tcalls) :
                  /\ work.tcalls[i].invoked
                  /\ Cardinality(InvokedBefore(i)) = k - 1
                  /\ work.fcalls[k].t = work.tcalls[i].t
                  /\ work.fcalls[k].x = work.tcalls[i].x
        /\ \A k, l \in 1..Len(work.fcalls) :
              k < l => work.fcalls[l].t >= work.fcalls[k].t + args.wait
        /\ \A i \in 1..Len(work.tcalls) :
              IF InvokedBefore(i) = {}
              THEN work.tcalls[i].invoked
              ELSE LET last == work.tcalls[Greatest(InvokedBefore(i))].t
                   IN /\ work.tcalls[i].t < last + args.wait => ~work.tcalls[i].invoked
                      /\ work.tcalls[i].t > last + args.wait => work.tcalls[i].invoked

\* ------------------------------------------------------------------
\* retry
\* ------------------------------------------------------------------

MaxAttempts == 3    \* largest maxAttempts handed to retry

Reject(e) == [kind |-> "reject", e |-> e]
Pending == [kind |-> "pending"]

\* what the promise of one attempt can settle to
AttemptOutcomes == {Return(Num(2)), Return(Undef), Reject("E1"), Reject("E2")}

\* the wait after every failed attempt, the last one included
RetryWaitsAlways(attempt, maxAttempts) == attempt <= maxAttempts

\* the catch block waits only if another attempt is to come
RetryWaits(attempt, maxAttempts) == attempt < maxAttempts

\* the head of the for loop with the counter at attempt: either func is
\* invoked and awaited, or the loop is left and lastError thrown
LoopHead(w, attempt) ==
    IF attempt <= args.maxAttempts
    THEN [w EXCEPT !.attempt = attempt,
                   !.fcalls = Append(w.fcalls,
                                     [start |-> w.now, end |-> -1, out |-> Pending])]
    ELSE [w EXCEPT !.attempt = attempt, !.doneAt = w.now]

LoopRet(w, attempt) ==
    IF attempt <= args.maxAttempts THEN Pending ELSE Reject(w.lastError)

\* retry(func, maxAttempts, delayMs) is about to be called; lastError is
\* declared without a value
InitRetry ==
    /\ op = "retry"
    /\ \E maxAttempts \in 0..MaxAttempts, delayMs \in Waits :
          args = [maxAttempts |-> maxAttempts, delayMs |-> delayMs]
    /\ heap = <<>>
    /\ pc = "call"
    /\ ret = NoRet
    /\ work = [now |-> 0, timers |-> <<>>, nextId |-> 1, attempt |-> 0,
               lastError |-> "undefined", fcalls |-> <<>>, doneAt |-> -1]

\* the call runs up to its first await
CallRetry ==
    /\ op = "retry" /\ pc = "call"
    /\ work' = LoopHead(work, 1)
    /\ ret' = LoopRet(work, 1)
    /\ pc' = IF ret'.kind = "pending" THEN "awaiting" ELSE "done"
    /\ UNCHANGED <<heap, op, args>>

\* the promise of the running attempt settles (an exception thrown by func
\* itself lands in the same catch block as a rejection)
AttemptSettles ==
    /\ op = "retry" /\ pc = "awaiting"
    /\ \E out \in AttemptOutcomes :
          LET n == Len(work.fcalls)
              w == [work EXCEPT !.fcalls[n].end = work.now, !.fcalls[n].out = out]
          IN IF out.kind = "return"
             THEN /\ work' = [w EXCEPT !.doneAt = work.now]
                  /\ ret' = out
                  /\ pc' = "done"
             ELSE LET e == [w EXCEPT !.lastError = out.e]
                  IN IF RetryWaits(work.attempt, args.maxAttempts)
                     THEN /\ work' = [e EXCEPT
                                        !.timers = SetTimeout(e.timers, e.nextId,
                                                              e.now + args.delayMs, Undef),
                                        !.nextId = e.nextId + 1]
                          /\ ret' = ret
                          /\ pc' = "waiting"
                     ELSE /\ work' = LoopHead(e, work.attempt + 1)
                          /\ ret' = LoopRet(e, work.attempt + 1)
                          /\ pc' = IF ret'.kind = "pending" THEN "awaiting" ELSE "done"
    /\ UNCHANGED <<heap, op, args>>

\* the delay is over: the loop goes on with the next value of the counter
RetryTimerFires ==
    /\ op = "retry" /\ pc = "waiting"
    /\ SomeDue(work.timers, work.now)
    /\ LET w == [work EXCEPT
                   !.timers = Dequeue(work.timers, FirstDue(work.timers, work.now))]
       IN /\ work' = LoopHead(w, work.attempt + 1)
          /\ ret' = LoopRet(w, work.attempt + 1)
          /\ pc' = IF ret'.kind = "pending" THEN "awaiting" ELSE "done"
    /\ UNCHANGED <<heap, op, args>>

\* a millisecond passes while an attempt runs or the delay lasts
RetryTick ==
    /\ op = "retry" /\ pc \in {"awaiting", "waiting"}
    /\ work.now < MaxClock
    /\ ~SomeDue(work.timers, work.now)
    /\ work' = [work EXCEPT !.now = work.now + 1]
    /\ UNCHANGED <<heap, op, args, pc, ret>>

NextRetry == CallRetry \/ AttemptSettles \/ RetryTimerFires \/ RetryTick

SpecRetry == InitRetry /\ [][NextRetry]_vars

\* C23: with maxAttempts >= 1, func is invoked at most maxAttempts times
\* and one attempt at a time; an attempt is made only after the one before
\* has failed, delayMs after that failure; the call resolves with the
\* result of the first attempt that succeeds, at the moment it succeeds;
\* and it rejects, with the error of the last attempt and at the moment
\* that attempt fails, exactly when all maxAttempts attempts have failed.
C23_SequentialBoundedAttempts ==
    (op = "retry" /\ args.maxAttempts >= 1 /\ pc # "call") =>
        LET n == Len(work.fcalls)
        IN /\ 1 <= n /\ n <= args.maxAttempts
           /\ \A k \in 1..(n - 1) :
                 /\ work.fcalls[k].out.kind = "reject"
                 /\ work.fcalls[k + 1].start = work.fcalls[k].end + args.delayMs
           /\ pc = "awaiting" <=> work.fcalls[n].out = Pending
           /\ pc = "waiting" <=>
                 (work.fcalls[n].out.kind = "reject" /\ n < args.maxAttempts)
           /\ pc = "done" <=>
                 \/ work.fcalls[n].out.kind = "return"
                 \/ work.fcalls[n].out.kind = "reject" /\ n = args.maxAttempts
           /\ pc = "done" =>
                 /\ ret = work.fcalls[n].out
                 /\ work.doneAt = work.fcalls[n].end
           /\ pc # "done" => ret.kind \in {"none", "pending"}

\* the third attempt has succeeded after two failures with different
\* errors, each followed by a delay, and the call has resolved with its
\* result
C23_Witness ==
    /\ op = "retry" /\ pc = "done"
    /\ args.maxAttempts = 3 /\ args.delayMs >= 1
    /\ Len(work.fcalls) = 3
    /\ work.fcalls[1].out = Reject("E1")
    /\ work.fcalls[2].out = Reject("E2")
    /\ ret = Return(Num(2))

\* ------------------------------------------------------------------
\* batch
\* ------------------------------------------------------------------

MaxBatch == 3    \* largest batchSize handed to batch

\* The items submitted are 1, 2, 3, ... in the order of submission, so that
\* an item tells its submission.  promises[k] is the state of the promise
\* returned for the item k, and pcalls logs the invocations of the processor:
\* when, with which items, for which promises, from a call or from a timer,
\* how many items had been submitted by then, and what it settled to.

Results(rs) == [kind |-> "results", rs |-> rs]

\* what the processor can answer to a batch: one result per item, an empty
\* array of results, or a failure
ProcessorOutcomes(batchItems) ==
    {Results([i \in 1..Len(batchItems) |-> Num(2 * batchItems[i])]),
     Results(<<>>),
     Reject("E")}

\* results[index], undefined beyond the end of the array
At(rs, i) == IF i \in 1..Len(rs) THEN rs[i] ELSE Undef

\* processBatch that leaves the items where they are
ProcessBatchKeepsItems(w, by) ==
    [w EXCEPT !.resolvers = <<>>,
              !.pcalls = Append(w.pcalls,
                                [t |-> w.now, items |-> w.items,
                                 resolvers |-> w.resolvers, by |-> by,
                                 submitted |-> Len(w.promises), out |-> Pending])]

\* processBatch up to its await: the pending items and resolvers are taken
\* over, the captured arrays emptied, and the processor invoked
ProcessBatch(w, by) ==
    [w EXCEPT !.items = <<>>,
              !.resolvers = <<>>,
              !.pcalls = Append(w.pcalls,
                                [t |-> w.now, items |-> w.items,
                                 resolvers |-> w.resolvers, by |-> by,
                                 submitted |-> Len(w.promises), out |-> Pending])]

\* batch(processor, batchSize, delayMs) has just returned the batching
\* function; timeout is the captured handle, 0 while it is undefined
InitBatch ==
    /\ op = "batch"
    /\ \E batchSize \in 1..MaxBatch, delayMs \in Waits :
          args = [batchSize |-> batchSize, delayMs |-> delayMs]
    /\ heap = <<>>
    /\ pc = "ready"
    /\ ret = NoRet
    /\ work = [now |-> 0, timers |-> <<>>, nextId |-> 1, timeout |-> 0,
               items |-> <<>>, resolvers |-> <<>>, promises |-> <<>>,
               bcalls |-> <<>>, pcalls |-> <<>>]

\* the batching function is called with the next item
CallBatched ==
    /\ op = "batch" /\ pc = "ready"
    /\ Len(work.bcalls) < MaxCalls
    /\ LET item == Len(work.bcalls) + 1
           w == [work EXCEPT !.items = Append(work.items, item),
                             !.resolvers = Append(work.resolvers, item),
                             !.promises = Append(work.promises, Pending),
                             !.bcalls = Append(work.bcalls, [t |-> work.now, item |-> item])]
       IN work' =
            IF Len(w.items) >= args.batchSize
            THEN ProcessBatch([w EXCEPT !.timers = ClearTimeout(w.timers, w.timeout)],
                              "call")
            ELSE IF args.delayMs > 0 /\ w.timeout = 0
            THEN [w EXCEPT !.timers = SetTimeout(w.timers, w.nextId,
                                                 w.now + args.delayMs, "reset"),
                           !.timeout = w.nextId,
                           !.nextId = w.nextId + 1]
            ELSE IF args.delayMs = 0
            THEN [w EXCEPT !.timers = SetTimeout(w.timers, w.nextId, w.now, "flush"),
                           !.nextId = w.nextId + 1]
            ELSE w
    /\ ret' = Pending
    /\ UNCHANGED <<heap, op, args, pc>>

\* a queued callback runs: the one queued with a delay resets timeout first,
\* and both call processBatch
BatchTimerFires ==
    /\ op = "batch" /\ pc = "ready"
    /\ SomeDue(work.timers, work.now)
    /\ LET i == FirstDue(work.timers, work.now)
           w == [work EXCEPT !.timers = Dequeue(work.timers, i),
                             !.timeout = IF work.timers[i].arg = "reset"
                                         THEN 0 ELSE work.timeout]
       IN work' = ProcessBatch(w, "timer")
    /\ UNCHANGED <<heap, op, args, pc, ret>>

\* the processor answers the batch j, and processBatch settles the promises
\* of that batch
ProcessorSettles ==
    /\ op = "batch" /\ pc = "ready"
    /\ \E j \in 1..Len(work.pcalls) :
          /\ work.pcalls[j].out = Pending
          /\ \E out \in ProcessorOutcomes(work.pcalls[j].items) :
                work' = [work EXCEPT
                           !.pcalls[j].out = out,
                           !.promises =
                              [k \in 1..Len(work.promises) |->
                                 IF \E i \in 1..Len(work.pcalls[j].resolvers) :
                                        work.pcalls[j].resolvers[i] = k
                                 THEN LET i == CHOOSE i \in 1..Len(work.pcalls[j].resolvers) :
                                                   work.pcalls[j].resolvers[i] = k
                                      IN IF out.kind = "results"
                                         THEN Return(At(out.rs, i))
                                         ELSE out
                                 ELSE work.promises[k]]]
    /\ UNCHANGED <<heap, op, args, pc, ret>>

\* a millisecond passes
BatchTick ==
    /\ op = "batch" /\ pc = "ready"
    /\ work.now < MaxClock
    /\ ~SomeDue(work.timers, work.now)
    /\ work' = [work EXCEPT !.now = work.now + 1]
    /\ UNCHANGED <<heap, op, args, pc, ret>>

NextBatch == CallBatched \/ BatchTimerFires \/ ProcessorSettles \/ BatchTick

SpecBatch == InitBatch /\ [][NextBatch]_vars

\* the items handed to the processor so far, batch after batch
RECURSIVE Handed(_)
Handed(j) == IF j = 0 THEN <<>> ELSE Handed(j - 1) \o work.pcalls[j].items

\* the batch that holds the item k and the place of k in it
BatchOf(k) ==
    CHOOSE p \in {<<j, i>> : j \in 1..Len(work.pcalls), i \in 1..MaxCalls} :
        /\ p[2] <= Len(work.pcalls[p[1]].items)
        /\ work.pcalls[p[1]].items[p[2]] = k

OneBurst ==
    \A j \in 1..Len(work.pcalls) :
        work.pcalls[j].by = "timer" => work.pcalls[j].submitted = Len(work.bcalls)

Ceil(k, n) == (k + n - 1) \div n

\* C25: with delayMs = 0, once k items have been submitted in one burst and
\* no timer is left to run, the processor has been invoked ceil(k /
\* batchSize) times.
C25_CeilInvocations ==
    (op = "batch" /\ args.delayMs = 0 /\ Len(work.bcalls) >= 1
        /\ OneBurst /\ work.timers = <<>>) =>
        Len(work.pcalls) = Ceil(Len(work.bcalls), args.batchSize)

\* C27: with delayMs > 0, no item is still pending more than delayMs after
\* its submission.
C27_FlushedWithinDelay ==
    (op = "batch" /\ args.delayMs > 0) =>
        \A i \in 1..Len(work.items) :
            work.now <= work.bcalls[work.items[i]].t + args.delayMs

\* ------------------------------------------------------------------
\* C26
\* ------------------------------------------------------------------

\* the index (from 0) at which the loop of weightedSample stops for the
\* draw rnd: the first whose cumulative weight reaches the draw, the last
\* one if none does
DrawnIndex(weights, totalWeight, rnd) ==
    LET hits == {i \in 1..Len(weights) :
                    rnd * totalWeight <= SumWeights(SubSeq(weights, 1, i)) * RandDenom}
    IN IF hits # {}
       THEN (CHOOSE i \in hits : \A j \in hits : i <= j) - 1
       ELSE Len(weights) - 1

\* the sequence without its entry at index d (from 0)
Without(array, d) == SubSeq(array, 1, d) \o SubSeq(array, d + 2, Len(array))

\* C26: an iteration of weightedSampleSizeWithoutReplacement that adds an
\* item to the result removes from the working items and from the working
\* weights the entry at the position that was drawn, whichever draw led to
\* that item.  Stated for items that indexOf can find (none of them NaN),
\* repeated or not.
C26_RemovesTheDrawnEntry ==
    [][(op = "weightedSampleSizeWithoutReplacement" /\ pc = "loop" /\ pc' = "loop"
          /\ (\A q \in 1..Len(args.array) : args.array[q] # NaN)
          /\ Len(work'.result) > Len(work.result))
        => \A rnd \in 0..(RandDenom - 1) :
              LET totalWeight == SumWeights(work.availableWeights)
                  d == DrawnIndex(work.availableWeights, totalWeight, rnd)
              IN (/\ weightedSample(work.availableItems, work.availableWeights, rnd)
                        = Return(work.availableItems[d + 1])
                  /\ work.availableItems[d + 1] = work'.result[Len(work'.result)])
                 => /\ work'.availableItems = Without(work.availableItems, d)
                    /\ work'.availableWeights = Without(work.availableWeights, d)]_vars

\* ------------------------------------------------------------------
\* C28
\* ------------------------------------------------------------------

\* C28: has returns true exactly when the walk along the segments of the
\* path succeeds, and get then returns the value stored there whatever the
\* default is; when has returns false, get returns the default; and has
\* throws only where get throws the same.
C28_HasAndGetAgree ==
    (op = "has" /\ pc = "done") =>
        LET exists == PathExists(heap, args.obj, Split(args.path))
        IN /\ ret = Return(Bool(TRUE)) <=> exists
           /\ \A d \in PathValues :
                 LET g == get(heap, args.obj, args.path, d)
                 IN /\ ret = Return(Bool(TRUE)) =>
                          g = Return(ClaimedGet(heap, args.obj, Split(args.path), Undef))
                    /\ ret = Return(Bool(FALSE)) => g = Return(d)
                    /\ ret.kind = "throw" => g = ret
           /\ ret.kind \in {"return", "throw"}

\* has has returned true for a path of two segments where null or undefined
\* is stored, and get returns that value with a default that differs
C28_Witness ==
    /\ op = "has" /\ pc = "done"
    /\ ret = Return(Bool(TRUE))
    /\ Len(Split(args.path)) = 2
    /\ get(heap, args.obj, args.path, Str(<<"d">>)) \in {Return(Null), Return(Undef)}

\* ------------------------------------------------------------------
\* C29
\* ------------------------------------------------------------------

\* the addresses of the records reached from a value through properties of
\* records
RECURSIVE RecordReach(_, _)
RecordReach(h, v) ==
    IF v.k # "ref" THEN {}
    ELSE IF h[v.a].k # "obj" THEN {}
    ELSE {v.a} \cup UNION {RecordReach(h, h[v.a].props[key]) : key \in DOMAIN h[v.a].props}

\* the addresses of the objects reachable from the sources
SourceReach(h) == UNION {Reach(h, args.objects[i]) : i \in 1..Len(args.objects)}

C30_LuhnImplementationsAgree ==
    (op \in {"isValidCreditCard", "isCreditCard"} /\ pc = "done") =>
        /\ ret \in {Return(Bool(TRUE)), Return(Bool(FALSE))}
        /\ op = "isValidCreditCard" => ret = Return(Bool(isCreditCard(args.str)))
        /\ op = "isCreditCard" => ret = Return(Bool(isValidCreditCard(args.str)))

\* isCreditCard has accepted a number of nineteen digits written with
\* separators, which isValidCreditCard accepts too
C30_Witness ==
    /\ op = "isCreditCard" /\ pc = "done"
    /\ ret = Return(Bool(TRUE))
    /\ Len(Cleaned(args.str)) = MaxCardDigits
    /\ Len(args.str) > MaxCardDigits
    /\ isValidCreditCard(args.str)

====
